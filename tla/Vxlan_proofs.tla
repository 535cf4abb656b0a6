---------------------------- MODULE Vxlan_proofs ----------------------------
(***************************************************************************)
(* The safety theorems of Vxlan, for any families, subnets, nodes and      *)
(* leases, any number of events, failures and deletions of the devices,    *)
(* and any number of goroutines that make them anew at a time.             *)
(***************************************************************************)
EXTENDS Vxlan, TLAPS

(***************************************************************************)
(* The inductive invariant: types, the devices and their indices, and what *)
(* the calls that are left rely on.                                        *)
(***************************************************************************)
LinkType == [idx : Nat, mac : Nat, compat : BOOLEAN]
CallType ==
  [op : {"AddARP", "AddFDB", "RouteReplace", "DelARP", "DelFDB", "RouteDel"}, f : Families]
HandlerType == [pc : {"calls"}, s : Subnets, l : Attrs, direct : [Families -> BOOLEAN],
                idx : [Families -> Nat], todo : Seq(CallType)]
RecType == [pc : {"create", "configure", "publish", "over"}, idx : [Families -> Nat]]

KernelType ==
  /\ link \in [Families -> LinkType] /\ top \in Nat
  /\ arp \in [Families -> [Subnets -> Attrs \cup {None}]]
  /\ fdb \in [Families -> [Attrs -> Nodes \cup {None}]]
  /\ route \in [Families -> [Subnets -> Nodes \cup {Vxlan, None}]]

VType ==
  /\ KernelType
  /\ dev \in [Families -> Nat] /\ advert \in [Families -> Nat]
  /\ reg \in {"new", "lease", "configure", "run", "failed"}
  /\ handler \in HandlerType \cup {Idle}
  /\ leases \in [Subnets -> Attrs \cup {None}]
  /\ done \in [Families -> [Subnets -> Attrs \cup {None}]]
  /\ updates \in Nat /\ missing \in BOOLEAN
  /\ rec \in Seq(RecType)

\* Indices are handed out once.
Indices ==
  /\ \A f \in Families : link[f].idx <= top /\ dev[f] <= top
  /\ handler # Idle => \A f \in Families : handler.idx[f] <= top
  /\ \A i \in 1 .. Len(rec), f \in Families : rec[i].idx[f] <= top

\* The MAC of a device, and when there is something to make it anew.
Macs ==
  /\ \A f \in Families : link[f].idx # 0 => link[f].mac # 0
  /\ updates > 0 \/ missing \/ Len(rec) > 0 \/ sub => reg = "run"
  /\ reg \in {"new", "lease", "configure"} => unread = {}
  /\ reg \in {"lease", "configure"} => \A f \in Families : dev[f] # 0
  /\ StoredMac /\ reg = "run" => \A f \in Families : advert[f] # 0
  /\ AdvertisedMac

\* What two subnets share is known, and only the lease of today is served.
Leases ==
  /\ \A s, t \in Subnets : s # t /\ leases[s] = leases[t] => leases[s] \in {None} \cup shared
  /\ \A f \in Families, s \in Subnets : done[f][s] # None => leases[s] = done[f][s]
  /\ \A f \in Families, s \in Subnets : done[f][s] # None /\ done[f][s] \notin shared =>
       \/ route[f][s] = done[f][s][1]
       \/ /\ route[f][s] = Vxlan
          /\ arp[f][s] = done[f][s] /\ fdb[f][done[f][s]] = done[f][s][1]

\* A call of the sequence.
In(q, c) == \E i \in 1 .. Len(q) : q[i] = c

\* The route of a family comes last, and nothing is undone before it.
RouteEnds(q) ==
  \A i, j \in 1 .. Len(q) : q[i].op = "RouteReplace" =>
    /\ q[j].f = q[i].f => j <= i
    /\ q[j].op \in {"AddARP", "AddFDB", "RouteReplace"}

\* On the device the route names, which no other replaces under the same index.
HasARP(f) == handler.idx[f] # 0 /\ link[f].idx = handler.idx[f] => arp[f][handler.s] = handler.l
HasFDB(f) ==
  handler.idx[f] # 0 /\ link[f].idx = handler.idx[f] => fdb[f][handler.l] = handler.l[1]

Handling ==
  /\ Len(handler.todo) > 0 /\ RouteEnds(handler.todo)
  /\ \A u \in Subnets : u # handler.s /\ leases[u] = handler.l => handler.l \in shared
  /\ \A i \in 1 .. Len(handler.todo) : done[handler.todo[i].f][handler.s] = None
  /\ \A f \in Families : In(handler.todo, Call("RouteReplace", f)) =>
       /\ leases[handler.s] = handler.l
       /\ ~handler.direct[f] => /\ In(handler.todo, Call("AddARP", f)) \/ HasARP(f)
                                /\ In(handler.todo, Call("AddFDB", f)) \/ HasFDB(f)

VInv == VType /\ Indices /\ Macs /\ Leases /\ (handler # Idle => Handling)

-----------------------------------------------------------------------------
\* A lease names a node, which is neither of the markers.
LEMMA NodeOf == ASSUME NEW l \in Attrs
                PROVE  l[1] \in Nodes /\ l[1] # Vxlan /\ l[1] # None /\ l # None
  BY Zenon, VxlanAssumption

\* The calls after the first.
LEMMA TailCalls ==
  ASSUME NEW q \in Seq(CallType), Len(q) > 0
  PROVE  /\ q[1] \in CallType /\ Head(q) = q[1]
         /\ Tail(q) \in Seq(CallType) /\ Len(Tail(q)) = Len(q) - 1
         /\ \A i \in 1 .. Len(Tail(q)) : i + 1 \in 1 .. Len(q) /\ Tail(q)[i] = q[i + 1]
         /\ Len(q) \in Nat
  OBVIOUS

\* A call is the first or one of the others.
LEMMA TailIn ==
  ASSUME NEW q \in Seq(CallType), Len(q) > 0, NEW c
  PROVE  In(q, c) <=> q[1] = c \/ In(Tail(q), c)
  <1>1. ASSUME In(Tail(q), c) PROVE In(q, c)
    BY <1>1, TailCalls DEF In
  <1>2. ASSUME In(q, c), q[1] # c PROVE In(Tail(q), c)
    <2>1. PICK i \in 1 .. Len(q) : q[i] = c
      BY Zenon, <1>2 DEF In
    <2>2. i - 1 \in 1 .. Len(Tail(q)) /\ Tail(q)[i - 1] = q[i]
      <3>1. i # 1
        BY Zenon, <1>2, <2>1
      <3>2. i - 1 \in 1 .. Len(Tail(q)) /\ (i - 1) + 1 = i
        BY <3>1, TailCalls
      <3> QED BY Zenon, <3>2, TailCalls
    <2> QED BY Zenon, <2>1, <2>2 DEF In
  <1>3. ASSUME q[1] = c PROVE In(q, c)
    BY <1>3, TailCalls DEF In
  <1> QED BY Zenon, <1>1, <1>2, <1>3

\* The route of a family still comes last, and once it is set its family is through.
LEMMA TailEnds ==
  ASSUME NEW q \in Seq(CallType), Len(q) > 0, RouteEnds(q)
  PROVE  /\ RouteEnds(Tail(q))
         /\ q[1].op = "RouteReplace" => \A i \in 1 .. Len(Tail(q)) : Tail(q)[i].f # q[1].f
  <1>1. RouteEnds(Tail(q))
    <2> SUFFICES ASSUME NEW i \in 1 .. Len(Tail(q)), NEW j \in 1 .. Len(Tail(q)),
                        Tail(q)[i].op = "RouteReplace"
                 PROVE  /\ Tail(q)[j].f = Tail(q)[i].f => j <= i
                        /\ Tail(q)[j].op \in {"AddARP", "AddFDB", "RouteReplace"}
      BY Zenon DEF RouteEnds
    <2>1. /\ i + 1 \in 1 .. Len(q) /\ Tail(q)[i] = q[i + 1]
          /\ j + 1 \in 1 .. Len(q) /\ Tail(q)[j] = q[j + 1]
      BY Zenon, TailCalls
    <2>2. /\ q[j + 1].f = q[i + 1].f => j + 1 <= i + 1
          /\ q[j + 1].op \in {"AddARP", "AddFDB", "RouteReplace"}
      BY Zenon, <2>1 DEF RouteEnds
    <2>3. j + 1 <= i + 1 => j <= i
      OBVIOUS
    <2> QED BY Zenon, <2>1, <2>2, <2>3
  <1>2. ASSUME q[1].op = "RouteReplace", NEW i \in 1 .. Len(Tail(q)) PROVE Tail(q)[i].f # q[1].f
    <2>1. i + 1 \in 1 .. Len(q) /\ Tail(q)[i] = q[i + 1] /\ 1 \in 1 .. Len(q)
      BY TailCalls
    <2>2. q[i + 1].f = q[1].f => i + 1 <= 1
      BY Zenon, <1>2, <2>1 DEF RouteEnds
    <2> QED BY <2>1, <2>2
  <1> QED BY Zenon, <1>1, <1>2

-----------------------------------------------------------------------------
\* The calls of one family for an event, which may be none.
Adds == {"AddARP", "AddFDB", "RouteReplace"}

Part(q, f, ops) ==
  /\ q \in Seq(CallType)
  /\ \A i \in 1 .. Len(q) : /\ q[i].f = f /\ q[i].op \in ops
                            /\ q[i].op = "RouteReplace" => i = Len(q)

Dels == {"DelARP", "DelFDB", "RouteDel"}

\* The calls of an Added set both entries before the route, unless the node is direct.
LEMMA AddShape ==
  ASSUME NEW f \in Families, NEW d \in BOOLEAN
  PROVE  /\ Part(AddCalls(f, d), f, Adds) /\ Len(AddCalls(f, d)) > 0
         /\ ~d => /\ In(AddCalls(f, d), Call("AddARP", f))
                  /\ In(AddCalls(f, d), Call("AddFDB", f))
  <1>1. CASE d
    BY <1>1 DEF Part, AddCalls, Call, CallType, Adds
  <1>2. CASE ~d
    <2> DEFINE q == AddCalls(f, d)
    <2>1. /\ q \in Seq(CallType) /\ Len(q) = 3
          /\ q[1] = Call("AddARP", f) /\ q[2] = Call("AddFDB", f) /\ q[3] = Call("RouteReplace", f)
      BY <1>2 DEF AddCalls, Call, CallType
    <2> HIDE DEF q
    <2>2. In(q, Call("AddARP", f)) /\ In(q, Call("AddFDB", f))
      BY <2>1 DEF In
    <2>3. ASSUME NEW i \in 1 .. Len(q)
          PROVE  /\ q[i].f = f /\ q[i].op \in Adds
                 /\ q[i].op = "RouteReplace" => i = Len(q)
      <3>1. i = 1 \/ i = 2 \/ i = 3
        BY <2>1
      <3> QED BY <2>1, <3>1 DEF Call, Adds
    <2>4. Part(q, f, Adds) /\ Len(q) > 0
      BY <2>1, <2>3 DEF Part
    <2> QED BY Zenon, <1>2, <2>2, <2>4 DEF q
  <1> QED BY Zenon, <1>1, <1>2

\* Those of a Removed set no route.
LEMMA DelShape ==
  ASSUME NEW f \in Families, NEW d \in BOOLEAN
  PROVE  Part(DelCalls(f, d), f, Dels) /\ Len(DelCalls(f, d)) > 0
  <1>1. CASE d
    BY <1>1 DEF Part, DelCalls, Call, CallType, Dels
  <1>2. CASE ~d
    <2> DEFINE q == DelCalls(f, d)
    <2>1. /\ q \in Seq(CallType) /\ Len(q) = 3
          /\ q[1] = Call("DelARP", f) /\ q[2] = Call("DelFDB", f) /\ q[3] = Call("RouteDel", f)
      BY <1>2 DEF DelCalls, Call, CallType
    <2> HIDE DEF q
    <2>2. ASSUME NEW i \in 1 .. Len(q)
          PROVE  /\ q[i].f = f /\ q[i].op \in Dels
                 /\ q[i].op = "RouteReplace" => i = Len(q)
      <3>1. i = 1 \/ i = 2 \/ i = 3
        BY <2>1
      <3> QED BY <2>1, <3>1 DEF Call, Dels
    <2>3. Part(q, f, Dels) /\ Len(q) > 0
      BY <2>1, <2>2 DEF Part
    <2> QED BY Zenon, <2>3 DEF q
  <1> QED BY Zenon, <1>1, <1>2

\* Those of IPv4 and then those of IPv6.
LEMMA PartsJoin ==
  ASSUME NEW ops \in {Adds, Dels}, NEW p, NEW q, Part(p, "v4", ops), Part(q, "v6", ops)
  PROVE  /\ p \o q \in Seq(CallType) /\ Len(p \o q) = Len(p) + Len(q)
         /\ RouteEnds(p \o q)
         /\ ops = Dels => \A i \in 1 .. Len(p \o q) : (p \o q)[i].op # "RouteReplace"
         /\ \A c : In(p, c) \/ In(q, c) => In(p \o q, c)
  <1>1. /\ p \in Seq(CallType) /\ q \in Seq(CallType) /\ p \o q \in Seq(CallType)
        /\ Len(p) \in Nat /\ Len(q) \in Nat /\ Len(p \o q) = Len(p) + Len(q)
        /\ \A i \in 1 .. Len(p) : i \in 1 .. Len(p \o q) /\ (p \o q)[i] = p[i]
        /\ \A i \in 1 .. Len(q) : Len(p) + i \in 1 .. Len(p \o q) /\ (p \o q)[Len(p) + i] = q[i]
    BY DEF Part
  <1>2. ASSUME NEW i \in 1 .. Len(p \o q)
        PROVE  \/ i \in 1 .. Len(p) /\ (p \o q)[i] = p[i]
               \/ \E k \in 1 .. Len(q) : i = Len(p) + k /\ (p \o q)[i] = q[k]
    <2>1. CASE i <= Len(p)
      BY <1>1, <2>1
    <2>2. CASE i > Len(p)
      <3>1. i - Len(p) \in 1 .. Len(q) /\ i = Len(p) + (i - Len(p))
        BY <1>1, <2>2
      <3> QED BY Zenon, <1>1, <3>1
    <2> QED BY <1>1, <2>1, <2>2
  <1>3. ASSUME NEW i \in 1 .. Len(p \o q) PROVE (p \o q)[i].op \in ops
    BY Zenon, <1>2 DEF Part
  <1>4. ops = Dels => \A i \in 1 .. Len(p \o q) : (p \o q)[i].op # "RouteReplace"
    BY Zenon, <1>3 DEF Dels
  <1>5. RouteEnds(p \o q)
    <2> SUFFICES ASSUME NEW i \in 1 .. Len(p \o q), NEW j \in 1 .. Len(p \o q),
                        (p \o q)[i].op = "RouteReplace", (p \o q)[j].f = (p \o q)[i].f
                 PROVE  j <= i
      BY Zenon, <1>3, <1>4 DEF RouteEnds, Adds
    <2>1. CASE i \in 1 .. Len(p) /\ (p \o q)[i] = p[i]
      <3>1. i = Len(p) /\ (p \o q)[j].f = "v4"
        BY Zenon, <2>1 DEF Part
      <3>2. j \in 1 .. Len(p)
        BY Zenon, <1>2, <3>1 DEF Part
      <3> QED BY <1>1, <3>1, <3>2
    <2>2. CASE \E k \in 1 .. Len(q) : i = Len(p) + k /\ (p \o q)[i] = q[k]
      <3>1. i = Len(p) + Len(q)
        BY Zenon, <2>2 DEF Part
      <3> QED BY <1>1, <3>1
    <2> QED BY Zenon, <1>2, <2>1, <2>2
  <1>6. ASSUME NEW c, In(p, c) \/ In(q, c) PROVE In(p \o q, c)
    BY Zenon, <1>1, <1>6 DEF In
  <1> QED BY Zenon, <1>1, <1>4, <1>5, <1>6

\* An event has calls; those of an Added end in the route, and set all a route over
\* the device relies on.
LEMMA CallsShape ==
  ASSUME NEW add \in BOOLEAN, NEW direct \in [Families -> BOOLEAN]
  PROVE  /\ Calls(add, direct) \in Seq(CallType) /\ Len(Calls(add, direct)) > 0
         /\ RouteEnds(Calls(add, direct))
         /\ ~add => \A i \in 1 .. Len(Calls(add, direct)) :
                      Calls(add, direct)[i].op # "RouteReplace"
         /\ add => \A f \in Families : ~direct[f] =>
                     /\ In(Calls(add, direct), Call("AddARP", f))
                     /\ In(Calls(add, direct), Call("AddFDB", f))
  <1> DEFINE of(f) == IF f \notin Families THEN <<>>
                      ELSE IF add THEN AddCalls(f, direct[f]) ELSE DelCalls(f, direct[f])
  <1> DEFINE ops == IF add THEN Adds ELSE Dels
  <1>1. ASSUME NEW f PROVE Part(of(f), f, ops) /\ Len(of(f)) \in Nat
    <2>1. CASE f \notin Families
      <3>1. of(f) = <<>> /\ Len(<<>>) = 0
        BY Zenon, <2>1
      <3> HIDE DEF of, ops
      <3> QED BY <3>1 DEF Part
    <2>2. CASE f \in Families /\ add
      BY <2>2, AddShape DEF Part
    <2>3. CASE f \in Families /\ ~add
      BY <2>3, DelShape DEF Part
    <2> QED BY Zenon, <2>1, <2>2, <2>3
  <1>2. ASSUME NEW f \in Families PROVE Len(of(f)) > 0
    BY Zenon, AddShape, DelShape
  <1>3. ASSUME add, NEW f \in Families, ~direct[f]
        PROVE  In(of(f), Call("AddARP", f)) /\ In(of(f), Call("AddFDB", f))
    BY Zenon, <1>3, AddShape
  <1>4. Calls(add, direct) = of("v4") \o of("v6")
    BY Zenon DEF Calls
  <1>5. ("v4" \in Families \/ "v6" \in Families) /\ Families \subseteq {"v4", "v6"}
    BY Zenon, VxlanAssumption
  <1>6. ops \in {Adds, Dels} /\ (add => ops = Adds) /\ (~add => ops = Dels)
    BY Zenon
  <1> HIDE DEF of, ops
  <1>7. Len(of("v4")) + Len(of("v6")) > 0
    BY <1>1, <1>2, <1>5
  <1>8. /\ Calls(add, direct) \in Seq(CallType) /\ RouteEnds(Calls(add, direct))
        /\ Len(Calls(add, direct)) = Len(of("v4")) + Len(of("v6"))
        /\ ops = Dels =>
             \A i \in 1 .. Len(Calls(add, direct)) : Calls(add, direct)[i].op # "RouteReplace"
        /\ \A c : In(of("v4"), c) \/ In(of("v6"), c) => In(Calls(add, direct), c)
    BY Zenon, <1>1, <1>4, <1>6, PartsJoin
  <1>9. ASSUME add, NEW f \in Families, ~direct[f]
        PROVE  /\ In(Calls(add, direct), Call("AddARP", f))
               /\ In(Calls(add, direct), Call("AddFDB", f))
    <2>1. f = "v4" \/ f = "v6"
      BY Zenon, <1>5
    <2> QED BY Zenon, <1>3, <1>8, <1>9, <2>1
  <1> QED BY Zenon, <1>6, <1>7, <1>8, <1>9

-----------------------------------------------------------------------------
\* The fields of the event being handled.
LEMMA HandlerFields ==
  ASSUME VType, handler # Idle
  PROVE  /\ handler \in HandlerType
         /\ handler.s \in Subnets /\ handler.l \in Attrs
         /\ handler.direct \in [Families -> BOOLEAN] /\ handler.idx \in [Families -> Nat]
         /\ handler.todo \in Seq(CallType)
         /\ \A i \in 1 .. Len(handler.todo) : handler.todo[i].f \in Families
  <1>1. handler \in HandlerType
    BY Zenon DEF VType
  <1>2. handler.todo \in Seq(CallType)
    BY Zenon, <1>1 DEF HandlerType
  <1>3. \A i \in 1 .. Len(handler.todo) : handler.todo[i] \in CallType
    BY <1>2
  <1> QED BY Zenon, <1>1, <1>2, <1>3 DEF HandlerType, CallType

\* What the calls that are left rely on, when the handler itself takes no step.
LEMMA HandlingFrame ==
  ASSUME Handling, VType, handler # Idle, handler' = handler, leases' = leases,
         shared' = shared,
         \A f \in Families : (HasARP(f) => HasARP(f)') /\ (HasFDB(f) => HasFDB(f)'),
         \A f \in Families, s \in Subnets : done[f][s] = None => done'[f][s] = None
  PROVE  Handling'
  <1>1. /\ handler.s \in Subnets
        /\ \A i \in 1 .. Len(handler.todo) : handler.todo[i].f \in Families
    BY Zenon, HandlerFields
  <1>2. \A i \in 1 .. Len(handler.todo) : done'[handler.todo[i].f][handler.s] = None
    BY Zenon, <1>1 DEF Handling
  <1>3. ASSUME NEW f \in Families, In(handler.todo, Call("RouteReplace", f))
        PROVE  /\ leases[handler.s] = handler.l
               /\ ~handler.direct[f] => /\ In(handler.todo, Call("AddARP", f)) \/ HasARP(f)'
                                        /\ In(handler.todo, Call("AddFDB", f)) \/ HasFDB(f)'
    BY Zenon, <1>3 DEF Handling
  <1> QED BY Zenon, <1>2, <1>3 DEF Handling

\* With a device go its entries and the routes over it, and with them what was done;
\* the device that takes its place has an index of its own.
LEMMA RelinkKeeps ==
  ASSUME VInv, NEW l \in [Families -> LinkType], Relink(l),
         \A f \in Families : l[f].idx = link[f].idx \/ l[f].idx = 0 \/ l[f].idx > top,
         handler' = handler, leases' = leases, shared' = shared
  PROVE  /\ link' = l
         /\ arp' \in [Families -> [Subnets -> Attrs \cup {None}]]
         /\ fdb' \in [Families -> [Attrs -> Nodes \cup {None}]]
         /\ route' \in [Families -> [Subnets -> Nodes \cup {Vxlan, None}]]
         /\ done' \in [Families -> [Subnets -> Attrs \cup {None}]]
         /\ Leases' /\ (handler # Idle => Handling')
  <1>a. VType /\ KernelType /\ Indices /\ Leases /\ (handler # Idle => Handling)
    BY Zenon DEF VInv, VType
  <1>1. /\ link' = l
        /\ arp' \in [Families -> [Subnets -> Attrs \cup {None}]]
        /\ fdb' \in [Families -> [Attrs -> Nodes \cup {None}]]
    BY Zenon, <1>a DEF Relink, KernelType
  <1>2. /\ route' \in [Families -> [Subnets -> Nodes \cup {Vxlan, None}]]
        /\ done' \in [Families -> [Subnets -> Attrs \cup {None}]]
    BY <1>a DEF Relink, KernelType, VType
  <1>3. ASSUME NEW f \in Families, l[f].idx = link[f].idx
        PROVE  /\ arp'[f] = arp[f] /\ fdb'[f] = fdb[f]
               /\ \A s \in Subnets : route'[f][s] = route[f][s] /\ done'[f][s] = done[f][s]
    BY Zenon, <1>3 DEF Relink
  <1>4. ASSUME NEW f \in Families, l[f].idx # link[f].idx
        PROVE  \A s \in Subnets :
                 /\ route'[f][s] = IF route[f][s] = Vxlan THEN None ELSE route[f][s]
                 /\ done'[f][s] = IF route[f][s] = Vxlan THEN None ELSE done[f][s]
    BY Zenon, <1>4 DEF Relink
  <1>5. \A f \in Families, s \in Subnets : done'[f][s] # None => done'[f][s] = done[f][s]
    BY Zenon, <1>3, <1>4
  <1>6. ASSUME NEW f \in Families, NEW s \in Subnets, done'[f][s] # None,
               done'[f][s] \notin shared
        PROVE  \/ route'[f][s] = done'[f][s][1]
               \/ /\ route'[f][s] = Vxlan
                  /\ arp'[f][s] = done'[f][s] /\ fdb'[f][done'[f][s]] = done'[f][s][1]
    <2>1. CASE l[f].idx = link[f].idx
      BY <1>a, <1>3, <1>6, <2>1 DEF Leases
    <2>2. CASE l[f].idx # link[f].idx
      BY <1>a, <1>4, <1>6, <2>2 DEF Leases
    <2> QED BY Zenon, <2>1, <2>2
  <1>7. Leases'
    BY <1>a, <1>5, <1>6 DEF Leases
  <1>8. ASSUME handler # Idle PROVE Handling'
    <2>1. handler \in HandlerType /\ Handling
      BY Zenon, <1>8, <1>a DEF VType
    <2>2. ASSUME NEW f \in Families
          PROVE  (HasARP(f) => HasARP(f)') /\ (HasFDB(f) => HasFDB(f)')
      <3>1. CASE l[f].idx = link[f].idx
        BY Zenon, <1>1, <1>3, <3>1 DEF HasARP, HasFDB
      <3>2. CASE l[f].idx # link[f].idx
        <4>1. handler.idx[f] \in Nat /\ l[f].idx \in Nat /\ top \in Nat /\ handler.idx[f] <= top
          BY Zenon, <1>a, <2>1, <1>8 DEF HandlerType, KernelType, Indices, LinkType
        <4>2. handler.idx[f] = 0 \/ l[f].idx # handler.idx[f]
          BY <3>2, <4>1
        <4> QED BY Zenon, <1>1, <4>2 DEF HasARP, HasFDB
      <3> QED BY Zenon, <3>1, <3>2
    <2>3. \A f \in Families, s \in Subnets : done[f][s] = None => done'[f][s] = None
      BY Zenon, <1>3, <1>4
    <2> QED BY Zenon, <1>a, <1>8, <2>1, <2>2, <2>3, HandlingFrame
  <1> QED BY Zenon, <1>1, <1>2, <1>7, <1>8

\* createVXLANDevice: a device that is there stays, and a new one has a new index and,
\* where there is one that could be read, the stored MAC.
LEMMA CreateDevice ==
  ASSUME VInv, NEW got \in BOOLEAN, createVXLANDevice(got), handler' = handler,
         leases' = leases, shared' = shared
  PROVE  /\ KernelType' /\ top' = top + 2
         /\ \A f \in Families :
              /\ link'[f].idx # 0 /\ link'[f].mac # 0 /\ link'[f].idx <= top'
              /\ \/ link'[f] = link[f] /\ link[f].idx # 0
                 \/ StoredMac /\ got /\ advert[f] # 0 => link'[f].mac = advert[f]
         /\ done' \in [Families -> [Subnets -> Attrs \cup {None}]]
         /\ Leases' /\ (handler # Idle => Handling')
  <1> DEFINE l == [f \in Families |-> newVXLANDevice(f, GetStoredMacAddresses(f, got))]
  <1>1. /\ link \in [Families -> LinkType] /\ top \in Nat /\ advert \in [Families -> Nat]
        /\ \A f \in Families : link[f].idx <= top /\ (link[f].idx # 0 => link[f].mac # 0)
    BY Zenon DEF VInv, VType, KernelType, Indices, Macs
  <1>2. Relink(l) /\ top' = top + 2
    BY Zenon DEF createVXLANDevice
  <1>3. ASSUME NEW f \in Families
        PROVE  /\ l[f] \in LinkType /\ l[f].idx # 0 /\ l[f].mac # 0 /\ l[f].idx <= top + 2
               /\ \/ l[f] = link[f] /\ link[f].idx # 0
                  \/ StoredMac /\ got /\ advert[f] # 0 => l[f].mac = advert[f]
               /\ l[f].idx = link[f].idx \/ l[f].idx > top
    <2> DEFINE stored == GetStoredMacAddresses(f, got)
    <2> DEFINE new == [idx |-> freshMac(f), compat |-> TRUE,
                       mac |-> IF stored = 0 THEN freshMac(f) ELSE stored]
    <2>1. /\ freshMac(f) \in Nat /\ freshMac(f) > top /\ freshMac(f) <= top + 2
          /\ stored \in Nat /\ (StoredMac /\ got => stored = advert[f])
      BY <1>1 DEF freshMac, GetStoredMacAddresses
    <2>2. l[f] = IF link[f].idx # 0 /\ ~vxlanLinksIncompat(link[f]) THEN link[f] ELSE new
      BY Zenon DEF newVXLANDevice, ensureLink
    <2> HIDE DEF stored, l
    <2>3. /\ new \in LinkType /\ new.idx > top /\ new.idx <= top + 2 /\ new.idx # 0 /\ new.mac # 0
          /\ StoredMac /\ got /\ advert[f] # 0 => new.mac = advert[f]
      BY <1>1, <2>1 DEF LinkType
    <2> HIDE DEF new
    <2>4. link[f] \in LinkType /\ link[f].idx \in Nat /\ link[f].idx <= top + 2
      BY <1>1 DEF LinkType
    <2> QED BY <1>1, <2>2, <2>3, <2>4
  <1>4. l \in [Families -> LinkType]
    BY Zenon, <1>3
  <1> HIDE DEF l
  <1>5. /\ link' = l
        /\ arp' \in [Families -> [Subnets -> Attrs \cup {None}]]
        /\ fdb' \in [Families -> [Attrs -> Nodes \cup {None}]]
        /\ route' \in [Families -> [Subnets -> Nodes \cup {Vxlan, None}]]
        /\ done' \in [Families -> [Subnets -> Attrs \cup {None}]]
        /\ Leases' /\ (handler # Idle => Handling')
    BY Zenon, <1>2, <1>3, <1>4, RelinkKeeps
  <1>6. KernelType'
    BY <1>1, <1>2, <1>4, <1>5 DEF KernelType
  <1> QED BY Zenon, <1>2, <1>3, <1>5, <1>6

-----------------------------------------------------------------------------
\* The handler after a call.
LEMMA Proceeds ==
  ASSUME handler \in HandlerType, NEW q \in Seq(CallType), Proceed(q)
  PROVE  /\ handler' \in HandlerType \cup {Idle}
         /\ handler' # Idle =>
              /\ handler'.s = handler.s /\ handler'.l = handler.l /\ handler'.idx = handler.idx
              /\ handler'.direct = handler.direct /\ handler'.todo = q /\ Len(q) > 0
  <1>1. q # <<>> => Len(q) > 0
    OBVIOUS
  <1>2. [handler EXCEPT !.todo = q] \in HandlerType
    BY Zenon DEF HandlerType
  <1>3. handler' # Idle => q # <<>> /\ handler' = [handler EXCEPT !.todo = q]
    BY Zenon DEF Proceed
  <1>4. handler' \in HandlerType \cup {Idle}
    BY Zenon, <1>2 DEF Proceed
  <1> QED BY Zenon, <1>1, <1>3, <1>4 DEF HandlerType

\* When the route of a family is next, the entries it relies on are on the device that
\* it names, if that device is still there.
LEMMA RouteRelies ==
  ASSUME VInv, handler # Idle, NEW f \in Families, handler.todo[1] = Call("RouteReplace", f)
  PROVE  /\ leases[handler.s] = handler.l
         /\ ~handler.direct[f] => HasARP(f) /\ HasFDB(f)
  <1>1. Handling /\ handler.todo \in Seq(CallType) /\ Len(handler.todo) > 0
    BY Zenon, HandlerFields DEF VInv, Handling
  <1>2. In(handler.todo, Call("RouteReplace", f))
    BY Zenon, <1>1, TailIn
  <1>3. ASSUME NEW op, In(handler.todo, Call(op, f)) PROVE op = "RouteReplace"
    <2>1. PICK j \in 1 .. Len(handler.todo) : handler.todo[j] = Call(op, f)
      BY Zenon, <1>3 DEF In
    <2>2. j <= 1
      BY <1>1, <2>1 DEF Handling, RouteEnds, Call
    <2>3. j = 1
      BY <2>2
    <2> QED BY <2>1, <2>3 DEF Call
  <1>4. ~In(handler.todo, Call("AddARP", f)) /\ ~In(handler.todo, Call("AddFDB", f))
    BY Zenon, <1>3
  <1> QED BY Zenon, <1>1, <1>2, <1>4 DEF Handling

\* A call changes at most the entry of its family for its subnet or its lease.
LEMMA CallEffect ==
  ASSUME VType, NEW c \in CallType, NEW s \in Subnets, NEW l \in Attrs, handler # Idle,
         handler.s = s, handler.l = l, NeighSet(c), RouteSet(c)
  PROVE  /\ arp' \in [Families -> [Subnets -> Attrs \cup {None}]]
         /\ fdb' \in [Families -> [Attrs -> Nodes \cup {None}]]
         /\ route' \in [Families -> [Subnets -> Nodes \cup {Vxlan, None}]]
         /\ done' \in [Families -> [Subnets -> Attrs \cup {None}]]
         /\ \A f \in Families, t \in Subnets : f # c.f \/ t # s =>
              /\ arp'[f][t] = arp[f][t] /\ route'[f][t] = route[f][t] /\ done'[f][t] = done[f][t]
         /\ \A f \in Families, m \in Attrs : f # c.f \/ m # l => fdb'[f][m] = fdb[f][m]
         /\ arp'[c.f][s] = CASE c.op = "AddARP" -> l [] c.op = "DelARP" -> None
                             [] OTHER -> arp[c.f][s]
         /\ fdb'[c.f][l] = CASE c.op = "AddFDB" -> l[1] [] c.op = "DelFDB" -> None
                             [] OTHER -> fdb[c.f][l]
         /\ route'[c.f][s] = CASE c.op = "RouteReplace" -> Target(c.f)
                               [] c.op = "RouteDel" -> None [] OTHER -> route[c.f][s]
         /\ done'[c.f][s] = IF c.op = "RouteReplace" THEN l ELSE done[c.f][s]
  <1>1. /\ arp \in [Families -> [Subnets -> Attrs \cup {None}]]
        /\ fdb \in [Families -> [Attrs -> Nodes \cup {None}]]
        /\ route \in [Families -> [Subnets -> Nodes \cup {Vxlan, None}]]
        /\ done \in [Families -> [Subnets -> Attrs \cup {None}]]
        /\ c.f \in Families /\ l[1] \in Nodes /\ Target(c.f) \in Nodes \cup {Vxlan}
    BY Zenon, NodeOf DEF VType, KernelType, CallType, Target
  <1>2. /\ arp' \in [Families -> [Subnets -> Attrs \cup {None}]]
        /\ \A f \in Families, t \in Subnets : f # c.f \/ t # s => arp'[f][t] = arp[f][t]
        /\ arp'[c.f][s] = CASE c.op = "AddARP" -> l [] c.op = "DelARP" -> None
                            [] OTHER -> arp[c.f][s]
    BY Zenon, <1>1 DEF NeighSet
  <1>3. /\ fdb' \in [Families -> [Attrs -> Nodes \cup {None}]]
        /\ \A f \in Families, m \in Attrs : f # c.f \/ m # l => fdb'[f][m] = fdb[f][m]
        /\ fdb'[c.f][l] = CASE c.op = "AddFDB" -> l[1] [] c.op = "DelFDB" -> None
                            [] OTHER -> fdb[c.f][l]
    BY Zenon, <1>1 DEF NeighSet
  <1>4. /\ route' \in [Families -> [Subnets -> Nodes \cup {Vxlan, None}]]
        /\ \A f \in Families, t \in Subnets : f # c.f \/ t # s => route'[f][t] = route[f][t]
        /\ route'[c.f][s] = CASE c.op = "RouteReplace" -> Target(c.f)
                              [] c.op = "RouteDel" -> None [] OTHER -> route[c.f][s]
    BY Zenon, <1>1 DEF RouteSet
  <1>5. /\ done' \in [Families -> [Subnets -> Attrs \cup {None}]]
        /\ \A f \in Families, t \in Subnets : f # c.f \/ t # s => done'[f][t] = done[f][t]
        /\ done'[c.f][s] = IF c.op = "RouteReplace" THEN l ELSE done[c.f][s]
    BY Zenon, <1>1 DEF RouteSet
  <1> QED BY <1>2, <1>3, <1>4, <1>5

\* A call that is made: the calls for one subnet leave what was done for the others.
LEMMA CallDone ==
  ASSUME VInv, CallSucceeds
  PROVE  /\ KernelType' /\ done' \in [Families -> [Subnets -> Attrs \cup {None}]]
         /\ handler' \in HandlerType \cup {Idle}
         /\ Leases' /\ (handler' # Idle => Handling')
  <1> DEFINE todo == handler.todo
  <1> DEFINE c == todo[1]
  <1> DEFINE s == handler.s
  <1> DEFINE l == handler.l
  <1>a. VType /\ Indices /\ Leases /\ Handling /\ handler # Idle
    BY Zenon DEF VInv, CallSucceeds
  <1>b. /\ handler \in HandlerType /\ s \in Subnets /\ l \in Attrs /\ l[1] \in Nodes /\ l # None
        /\ todo \in Seq(CallType) /\ Len(todo) > 0 /\ l[1] # Vxlan
    BY Zenon, <1>a, HandlerFields, NodeOf DEF Handling
  <1>c. /\ c \in CallType /\ Head(todo) = c /\ Tail(todo) \in Seq(CallType) /\ 1 \in 1 .. Len(todo)
        /\ c.f \in Families
    <2>1. /\ c \in CallType /\ Head(todo) = c /\ Tail(todo) \in Seq(CallType)
          /\ Len(todo) \in Nat
      BY Zenon, <1>b, TailCalls
    <2> HIDE DEF todo
    <2> QED BY <1>b, <2>1 DEF CallType
  <1>d. /\ Possible(c) /\ NeighSet(c) /\ RouteSet(c) /\ Proceed(Tail(todo))
        /\ link' = link /\ top' = top /\ leases' = leases /\ shared' = shared
    BY Zenon, <1>c DEF CallSucceeds, CallFrame, env
  <1>e. /\ arp' \in [Families -> [Subnets -> Attrs \cup {None}]]
        /\ fdb' \in [Families -> [Attrs -> Nodes \cup {None}]]
        /\ route' \in [Families -> [Subnets -> Nodes \cup {Vxlan, None}]]
        /\ done' \in [Families -> [Subnets -> Attrs \cup {None}]]
        /\ \A f \in Families, t \in Subnets : f # c.f \/ t # s =>
             /\ arp'[f][t] = arp[f][t] /\ route'[f][t] = route[f][t] /\ done'[f][t] = done[f][t]
        /\ \A f \in Families, m \in Attrs : f # c.f \/ m # l => fdb'[f][m] = fdb[f][m]
        /\ arp'[c.f][s] = CASE c.op = "AddARP" -> l [] c.op = "DelARP" -> None
                            [] OTHER -> arp[c.f][s]
        /\ fdb'[c.f][l] = CASE c.op = "AddFDB" -> l[1] [] c.op = "DelFDB" -> None
                            [] OTHER -> fdb[c.f][l]
        /\ route'[c.f][s] = CASE c.op = "RouteReplace" -> Target(c.f)
                              [] c.op = "RouteDel" -> None [] OTHER -> route[c.f][s]
        /\ done'[c.f][s] = IF c.op = "RouteReplace" THEN l ELSE done[c.f][s]
    BY Zenon, <1>a, <1>b, <1>c, <1>d, CallEffect
  <1>f. done[c.f][s] = None
    BY Zenon, <1>a, <1>c DEF Handling
  <1>g. /\ handler' \in HandlerType \cup {Idle}
        /\ handler' # Idle =>
             /\ handler'.s = s /\ handler'.l = l /\ handler'.idx = handler.idx
             /\ handler'.direct = handler.direct /\ handler'.todo = Tail(todo)
             /\ Len(Tail(todo)) > 0
    BY Zenon, <1>b, <1>c, <1>d, Proceeds
  <1>h. /\ done \in [Families -> [Subnets -> Attrs \cup {None}]]
        /\ leases \in [Subnets -> Attrs \cup {None}]
    BY Zenon, <1>a DEF VType
  <1>i. c.op = "RouteReplace" => c = Call("RouteReplace", c.f)
    BY Zenon, <1>c DEF Call, CallType
  <1>1. KernelType'
    BY Zenon, <1>a, <1>d, <1>e DEF VType, KernelType
  <1> HIDE DEF todo, c, s, l
  <1>2. ASSUME c.op = "RouteReplace"
        PROVE  /\ leases[s] = l
               /\ \/ route'[c.f][s] = l[1]
                  \/ route'[c.f][s] = Vxlan /\ arp'[c.f][s] = l /\ fdb'[c.f][l] = l[1]
    <2>1. leases[s] = l /\ (~handler.direct[c.f] => HasARP(c.f) /\ HasFDB(c.f))
      BY Zenon, <1>2, <1>a, <1>c, <1>i, RouteRelies DEF c, todo, s, l
    <2>2. route'[c.f][s] = Target(c.f) /\ arp'[c.f][s] = arp[c.f][s] /\ fdb'[c.f][l] = fdb[c.f][l]
      BY Zenon, <1>2, <1>e
    <2>3. CASE handler.direct[c.f]
      BY Zenon, <2>1, <2>2, <2>3 DEF Target, l
    <2>4. CASE ~handler.direct[c.f]
      <3>1. handler.idx[c.f] # 0 /\ link[c.f].idx = handler.idx[c.f]
        BY Zenon, <1>2, <1>d, <2>4 DEF Possible, IndexFor
      <3>2. arp[c.f][s] = l /\ fdb[c.f][l] = l[1]
        BY Zenon, <2>1, <2>4, <3>1 DEF HasARP, HasFDB, s, l
      <3> QED BY Zenon, <2>1, <2>2, <2>4, <3>2 DEF Target
    <2> QED BY Zenon, <2>3, <2>4
  <1>3. ASSUME NEW f \in Families, NEW t \in Subnets, done'[f][t] # None, f # c.f \/ t # s
        PROVE  /\ done'[f][t] = done[f][t] /\ leases[t] = done[f][t]
               /\ \/ done[f][t] \in shared
                  \/ route'[f][t] = done[f][t][1]
                  \/ /\ route'[f][t] = Vxlan /\ arp'[f][t] = done[f][t]
                     /\ fdb'[f][done[f][t]] = done[f][t][1]
    <2>1. /\ done'[f][t] = done[f][t] /\ route'[f][t] = route[f][t] /\ arp'[f][t] = arp[f][t]
          /\ done[f][t] \in Attrs /\ leases[t] = done[f][t]
      BY <1>3, <1>a, <1>e, <1>h DEF Leases
    <2>2. ASSUME fdb[f][done[f][t]] = done[f][t][1], done[f][t] \notin shared
          PROVE  fdb'[f][done[f][t]] = done[f][t][1]
      <3>1. CASE f # c.f \/ done[f][t] # l
        BY Zenon, <1>e, <2>1, <2>2, <3>1
      <3>2. CASE f = c.f /\ done[f][t] = l
        <4>1. t # s /\ leases[t] = l
          BY Zenon, <1>3, <2>1, <3>2
        <4>2. l \in shared
          BY Zenon, <1>a, <4>1 DEF Handling, s, l
        <4> QED BY Zenon, <2>2, <3>2, <4>2
      <3> QED BY Zenon, <3>1, <3>2
    <2>3. \/ done[f][t] \in shared
          \/ route[f][t] = done[f][t][1]
          \/ route[f][t] = Vxlan /\ arp[f][t] = done[f][t] /\ fdb[f][done[f][t]] = done[f][t][1]
      BY Zenon, <1>3, <1>a, <2>1 DEF Leases
    <2> QED BY Zenon, <2>1, <2>2, <2>3
  <1>4. Leases'
    <2>1. ASSUME NEW f \in Families, NEW t \in Subnets, done'[f][t] # None
          PROVE  /\ leases[t] = done'[f][t]
                 /\ \/ done'[f][t] \in shared
                    \/ route'[f][t] = done'[f][t][1]
                    \/ /\ route'[f][t] = Vxlan /\ arp'[f][t] = done'[f][t]
                       /\ fdb'[f][done'[f][t]] = done'[f][t][1]
      <3>1. CASE f # c.f \/ t # s
        BY <1>3, <2>1, <3>1
      <3>2. CASE f = c.f /\ t = s
        <4>1. c.op = "RouteReplace" /\ done'[f][t] = l
          BY Zenon, <1>e, <1>f, <2>1, <3>2
        <4> QED BY Zenon, <1>2, <3>2, <4>1
      <3> QED BY Zenon, <3>1, <3>2
    <2> QED BY <1>a, <1>d, <2>1 DEF Leases
  <1>5. ASSUME handler' # Idle PROVE Handling'
    <2>1. RouteEnds(todo) /\ RouteEnds(Tail(todo))
      BY Zenon, <1>a, <1>b, TailEnds DEF Handling, todo
    <2>2. ASSUME NEW i \in 1 .. Len(Tail(todo)) PROVE done'[Tail(todo)[i].f][s] = None
      <3>1. i + 1 \in 1 .. Len(todo) /\ Tail(todo)[i] = todo[i + 1]
        BY Zenon, <1>b, TailCalls
      <3>2. Tail(todo)[i].f \in Families /\ done[Tail(todo)[i].f][s] = None
        BY Zenon, <1>a, <3>1, HandlerFields DEF Handling, todo, s
      <3>3. c.op = "RouteReplace" => Tail(todo)[i].f # c.f
        BY Zenon, <1>b, <2>1, TailEnds DEF c
      <3> QED BY Zenon, <1>b, <1>e, <3>2, <3>3
    <2>3. ASSUME NEW f \in Families, In(Tail(todo), Call("RouteReplace", f))
          PROVE  /\ leases[s] = l
                 /\ ~handler.direct[f] =>
                      /\ In(Tail(todo), Call("AddARP", f)) \/ HasARP(f)'
                      /\ In(Tail(todo), Call("AddFDB", f)) \/ HasFDB(f)'
      <3>1. In(todo, Call("RouteReplace", f)) /\ c.op \in {"AddARP", "AddFDB", "RouteReplace"}
        <4>1. In(todo, Call("RouteReplace", f))
          BY Zenon, <1>b, <2>3, TailIn
        <4>2. PICK i \in 1 .. Len(todo) : todo[i].op = "RouteReplace"
          BY <4>1 DEF In, Call
        <4> QED BY Zenon, <1>c, <2>1, <4>1, <4>2 DEF RouteEnds, c
      <3>2. /\ leases[s] = l
            /\ ~handler.direct[f] => /\ In(todo, Call("AddARP", f)) \/ HasARP(f)
                                     /\ In(todo, Call("AddFDB", f)) \/ HasFDB(f)
        BY Zenon, <1>a, <3>1 DEF Handling, todo, s, l
      <3>3. HasARP(f) => HasARP(f)'
        <4>1. arp[f][s] = l => arp'[f][s] = l
          BY Zenon, <1>b, <1>e, <3>1
        <4> QED BY Zenon, <1>5, <1>d, <1>g, <4>1 DEF HasARP, s, l
      <3>4. c = Call("AddARP", f) => HasARP(f)'
        <4>1. c = Call("AddARP", f) => arp'[f][s] = l
          BY <1>e DEF Call
        <4> QED BY Zenon, <1>5, <1>g, <4>1 DEF HasARP, s, l
      <3>5. HasFDB(f) => HasFDB(f)'
        <4>1. fdb[f][l] = l[1] => fdb'[f][l] = l[1]
          BY Zenon, <1>b, <1>e, <3>1
        <4> QED BY Zenon, <1>5, <1>d, <1>g, <4>1 DEF HasFDB, s, l
      <3>6. c = Call("AddFDB", f) => HasFDB(f)'
        <4>1. c = Call("AddFDB", f) => fdb'[f][l] = l[1]
          BY <1>e DEF Call
        <4> QED BY Zenon, <1>5, <1>g, <4>1 DEF HasFDB, s, l
      <3>7. /\ In(todo, Call("AddARP", f)) =>
                 c = Call("AddARP", f) \/ In(Tail(todo), Call("AddARP", f))
            /\ In(todo, Call("AddFDB", f)) =>
                 c = Call("AddFDB", f) \/ In(Tail(todo), Call("AddFDB", f))
        BY Zenon, <1>b, TailIn DEF c
      <3> QED BY Zenon, <3>2, <3>3, <3>4, <3>5, <3>6, <3>7
    <2>4. \A u \in Subnets : u # s /\ leases[u] = l => l \in shared
      BY Zenon, <1>a DEF Handling, s, l
    <2> QED BY Zenon, <1>5, <1>d, <1>g, <2>1, <2>2, <2>3, <2>4 DEF Handling
  <1> QED BY Zenon, <1>1, <1>4, <1>5, <1>e, <1>g

\* A call that fails: what is left is part of what was left, or undoes the entries of a
\* family whose route is not set.
LEMMA CallFailed ==
  ASSUME VInv, CallFails
  PROVE  /\ handler' \in HandlerType \cup {Idle}
         /\ Leases' /\ (handler' # Idle => Handling')
  <1> DEFINE todo == handler.todo
  <1> DEFINE c == todo[1]
  <1> DEFINE q == AfterFailure(c, Tail(todo))
  <1>a. VType /\ Leases /\ Handling /\ handler # Idle
    BY Zenon DEF VInv, CallFails
  <1>b. /\ handler \in HandlerType /\ handler.s \in Subnets
        /\ todo \in Seq(CallType) /\ Len(todo) > 0 /\ RouteEnds(todo)
    BY Zenon, <1>a, HandlerFields DEF Handling
  <1>c. /\ c \in CallType /\ Head(todo) = c /\ Tail(todo) \in Seq(CallType)
        /\ Len(todo) \in Nat
    BY Zenon, <1>b, TailCalls
  <1>d. Proceed(q) /\ UNCHANGED <<arp, fdb, route, done, link, leases, shared>>
    BY Zenon, <1>c DEF CallFails, CallFrame, env
  <1> HIDE DEF todo
  <1>e. c.f \in Families /\ done[c.f][handler.s] = None
    BY <1>a, <1>b, <1>c DEF CallType, Handling, todo
  <1>f. Leases'
    BY <1>a, <1>d DEF Leases
  <1>1. \/ q = <<>> \/ q = <<Call("DelARP", c.f)>>
        \/ q = <<Call("DelARP", c.f), Call("DelFDB", c.f)>>
        \/ q = Tail(todo)
    BY Zenon DEF AfterFailure
  <1> HIDE DEF q
  <1>2. ASSUME q # Tail(todo)
        PROVE  /\ q \in Seq(CallType)
               /\ \A i \in 1 .. Len(q) : q[i].f = c.f /\ q[i].op # "RouteReplace"
    <2>1. Call("DelARP", c.f) \in CallType /\ Call("DelFDB", c.f) \in CallType
      BY Zenon, <1>e DEF Call, CallType
    <2>2. /\ Call("DelARP", c.f).f = c.f /\ Call("DelARP", c.f).op # "RouteReplace"
          /\ Call("DelFDB", c.f).f = c.f /\ Call("DelFDB", c.f).op # "RouteReplace"
      BY Zenon DEF Call
    <2>3. CASE q = <<>>
      BY <2>3
    <2>4. CASE q = <<Call("DelARP", c.f)>>
      BY <2>1, <2>2, <2>4
    <2>5. CASE q = <<Call("DelARP", c.f), Call("DelFDB", c.f)>>
      <3>1. q \in Seq(CallType) /\ Len(q) = 2
        BY <2>1, <2>5
      <3>2. q[1] = Call("DelARP", c.f) /\ q[2] = Call("DelFDB", c.f)
        BY Zenon, <2>5
      <3>3. \A i \in 1 .. Len(q) : i = 1 \/ i = 2
        BY <3>1
      <3> QED BY Zenon, <2>2, <3>1, <3>2, <3>3
    <2> QED BY Zenon, <1>1, <1>2, <2>3, <2>4, <2>5
  <1>3. /\ handler' \in HandlerType \cup {Idle}
        /\ handler' # Idle =>
             /\ handler'.s = handler.s /\ handler'.l = handler.l /\ handler'.idx = handler.idx
             /\ handler'.direct = handler.direct /\ handler'.todo = q /\ Len(q) > 0
    BY Zenon, <1>b, <1>c, <1>d, <1>2, Proceeds
  <1>4. ASSUME handler' # Idle PROVE Handling'
    <2>1. ASSUME NEW f \in Families
          PROVE  (HasARP(f) <=> HasARP(f)') /\ (HasFDB(f) <=> HasFDB(f)')
      BY Zenon, <1>3, <1>4, <1>d DEF HasARP, HasFDB
    <2>2. \A u \in Subnets : u # handler.s /\ leases[u] = handler.l => handler.l \in shared
      BY Zenon, <1>a DEF Handling
    <2>3. CASE q # Tail(todo)
      <3>1. RouteEnds(q)
        BY Zenon, <1>2, <2>3 DEF RouteEnds
      <3>2. \A f \in Families : ~In(q, Call("RouteReplace", f))
        BY <1>2, <2>3 DEF In, Call
      <3>3. \A i \in 1 .. Len(q) : done[q[i].f][handler.s] = None
        BY Zenon, <1>2, <1>e, <2>3
      <3> QED BY Zenon, <1>3, <1>4, <1>d, <2>2, <3>1, <3>2, <3>3 DEF Handling
    <2>4. CASE q = Tail(todo)
      <3>1. RouteEnds(q)
        BY Zenon, <1>b, <2>4, TailEnds
      <3>2. \A i \in 1 .. Len(q) : done[q[i].f][handler.s] = None
        <4>1. \A i \in 1 .. Len(q) : i + 1 \in 1 .. Len(todo) /\ q[i] = todo[i + 1]
          BY Zenon, <1>b, <2>4, TailCalls
        <4> QED BY ZenonT(40), <1>a, <4>1 DEF Handling, todo
      <3>3. ASSUME NEW f \in Families, In(q, Call("RouteReplace", f))
            PROVE  /\ leases[handler.s] = handler.l
                   /\ ~handler.direct[f] => /\ In(q, Call("AddARP", f)) \/ HasARP(f)'
                                            /\ In(q, Call("AddFDB", f)) \/ HasFDB(f)'
        <4>1. In(todo, Call("RouteReplace", f))
          BY Zenon, <1>b, <2>4, <3>3, TailIn
        <4>2. c.op \notin {"AddARP", "AddFDB"}
          <5>1. c.op = "AddARP" => q = <<>>
            BY Zenon DEF AfterFailure, q
          <5>2. c.op = "AddFDB" => q = <<Call("DelARP", c.f)>>
            BY Zenon DEF AfterFailure, q
          <5>3. ~In(<<>>, Call("RouteReplace", f))
            BY DEF In
          <5>4. ~In(<<Call("DelARP", c.f)>>, Call("RouteReplace", f))
            BY DEF In, Call
          <5> QED BY Zenon, <3>3, <5>1, <5>2, <5>3, <5>4
        <4>3. /\ In(todo, Call("AddARP", f)) => In(q, Call("AddARP", f))
              /\ In(todo, Call("AddFDB", f)) => In(q, Call("AddFDB", f))
          BY <1>b, <2>4, <4>2, TailIn DEF Call
        <4> QED BY Zenon, <1>a, <2>1, <4>1, <4>3 DEF Handling, todo
      <3> QED BY Zenon, <1>3, <1>4, <1>d, <2>2, <3>1, <3>2, <3>3 DEF Handling
    <2> QED BY Zenon, <2>3, <2>4
  <1> QED BY Zenon, <1>3, <1>4, <1>f

\* An event is taken: nothing is done for its subnet any more, and if another subnet has
\* the same lease, that is known.
LEMMA EventTaken ==
  ASSUME VInv, NEW s \in Subnets, NEW l \in Attrs, NEW x,
         \/ x = l /\ Handle(TRUE, s, l)
         \/ x = None /\ Handle(FALSE, s, l),
         \A u \in Subnets : u # s /\ leases[u] = l => l \in shared',
         shared \subseteq shared' \cup {l},
         leases' = [leases EXCEPT ![s] = x],
         done' = [f \in Families |-> [done[f] EXCEPT ![s] = None]],
         UNCHANGED <<kernel, dev>>
  PROVE  /\ handler' \in HandlerType /\ handler'.idx = dev
         /\ leases' \in [Subnets -> Attrs \cup {None}]
         /\ done' \in [Families -> [Subnets -> Attrs \cup {None}]]
         /\ Leases' /\ Handling'
  <1>a. VType /\ Leases
    BY Zenon DEF VInv
  <1>b. UNCHANGED <<arp, fdb, route>>
    BY Zenon DEF kernel
  <1>0. PICK add \in BOOLEAN : x \in {l, None} /\ (add => x = l) /\ Handle(add, s, l)
    BY Zenon
  <1>1. PICK direct \in [Families -> BOOLEAN] :
          handler' = [pc |-> "calls", s |-> s, l |-> l, direct |-> direct,
                      idx |-> dev, todo |-> Calls(add, direct)]
    BY Zenon, <1>0 DEF Handle
  <1> DEFINE q == Calls(add, direct)
  <1>2. /\ q \in Seq(CallType) /\ Len(q) > 0 /\ RouteEnds(q)
        /\ ~add => \A i \in 1 .. Len(q) : q[i].op # "RouteReplace"
        /\ add => \A f \in Families : ~direct[f] =>
                    In(q, Call("AddARP", f)) /\ In(q, Call("AddFDB", f))
    BY Zenon, CallsShape
  <1> HIDE DEF q
  <1>3. handler' = [pc |-> "calls", s |-> s, l |-> l, direct |-> direct, idx |-> dev, todo |-> q]
    BY Zenon, <1>1 DEF q
  <1>4. handler' \in HandlerType
    BY Zenon, <1>a, <1>2, <1>3 DEF HandlerType, VType
  <1>5. /\ leases' \in [Subnets -> Attrs \cup {None}]
        /\ leases'[s] = x
        /\ \A u \in Subnets : u # s => leases'[u] = leases[u]
    BY Zenon, <1>a, <1>0 DEF VType
  <1>6. /\ done' \in [Families -> [Subnets -> Attrs \cup {None}]]
        /\ \A f \in Families : done'[f][s] = None
        /\ \A f \in Families, u \in Subnets : u # s => done'[f][u] = done[f][u]
    BY Zenon, <1>a DEF VType
  <1>7. Leases'
    <2>1. ASSUME NEW t \in Subnets, NEW u \in Subnets, t # u, leases'[t] = leases'[u],
                 leases'[t] # None
          PROVE  leases'[t] \in shared'
      <3>1. CASE t # s /\ u # s
        <4>1. leases[t] = leases[u] /\ leases[t] # None /\ leases'[t] = leases[t]
          BY Zenon, <1>5, <2>1, <3>1
        <4>2. leases[t] \in shared
          BY Zenon, <1>a, <2>1, <4>1 DEF Leases
        <4>3. leases[t] = l => l \in shared'
          BY Zenon, <3>1
        <4> QED BY Zenon, <4>1, <4>2, <4>3
      <3>2. CASE t = s
        <4>1. leases'[t] = l /\ leases[u] = l
          BY Zenon, <1>0, <1>5, <2>1, <3>2
        <4> QED BY Zenon, <2>1, <3>2, <4>1
      <3>3. CASE u = s
        <4>1. leases'[t] = l /\ leases[t] = l
          BY Zenon, <1>0, <1>5, <2>1, <3>3
        <4> QED BY Zenon, <2>1, <3>3, <4>1
      <3> QED BY Zenon, <3>1, <3>2, <3>3
    <2>2. ASSUME NEW f \in Families, NEW t \in Subnets, done'[f][t] # None
          PROVE  /\ leases'[t] = done'[f][t]
                 /\ \/ done'[f][t] \in shared'
                    \/ route[f][t] = done'[f][t][1]
                    \/ route[f][t] = Vxlan /\ arp[f][t] = done'[f][t]
                         /\ fdb[f][done'[f][t]] = done'[f][t][1]
      <3>1. t # s /\ done'[f][t] = done[f][t] /\ leases'[t] = leases[t]
        BY Zenon, <1>5, <1>6, <2>2
      <3>2. leases[t] = done[f][t]
        BY Zenon, <1>a, <2>2, <3>1 DEF Leases
      <3>3. done[f][t] \in shared => done[f][t] \in shared'
        BY Zenon, <3>1, <3>2
      <3> QED BY <1>a, <2>2, <3>1, <3>2, <3>3 DEF Leases
    <2> QED BY <1>b, <2>1, <2>2 DEF Leases
  <1>8. Handling'
    <2>1. \A i \in 1 .. Len(q) : q[i].f \in Families
      <3>1. \A i \in 1 .. Len(q) : q[i] \in CallType
        BY <1>2
      <3> QED BY Zenon, <3>1 DEF CallType
    <2>2. ASSUME NEW f \in Families, In(q, Call("RouteReplace", f))
          PROVE  /\ leases'[s] = l
                 /\ ~direct[f] => In(q, Call("AddARP", f)) /\ In(q, Call("AddFDB", f))
      <3>1. add
        BY <1>2, <2>2 DEF In, Call
      <3> QED BY Zenon, <1>0, <1>2, <1>5, <3>1
    <2>3. \A u \in Subnets : u # s /\ leases'[u] = l => l \in shared'
      BY Zenon, <1>5
    <2>4. handler'.s = s /\ handler'.l = l /\ handler'.direct = direct /\ handler'.todo = q
      BY Zenon, <1>3
    <2> QED BY <1>2, <1>6, <2>1, <2>2, <2>3, <2>4 DEF Handling
  <1> QED BY Zenon, <1>3, <1>4, <1>5, <1>6, <1>7, <1>8

-----------------------------------------------------------------------------
\* At first nothing was done; a device an earlier run left has its MAC.
LEMMA VInvInit == Init => VInv
  <1> SUFFICES ASSUME Init PROVE VInv
    BY Zenon
  <1>1. /\ link \in [Families -> LinkType]
        /\ \A f \in Families : link[f].idx <= 1 /\ (link[f].idx # 0 => link[f].mac # 0)
    <2>1. PICK l \in {NoLink} \cup [idx : {1}, mac : {1}, compat : BOOLEAN] : link = PerFamily(l)
      BY Zenon DEF Init
    <2>2. l \in LinkType /\ l.idx <= 1 /\ (l.idx # 0 => l.mac # 0)
      <3>1. CASE l = NoLink
        BY <3>1 DEF NoLink, LinkType
      <3>2. CASE l \in [idx : {1}, mac : {1}, compat : BOOLEAN]
        BY <3>2 DEF LinkType
      <3> QED BY Zenon, <3>1, <3>2
    <2> QED BY Zenon, <2>1, <2>2 DEF PerFamily
  <1>2. advert \in [Families -> Nat] /\ dev = [f \in Families |-> 0]
    BY DEF Init, PerFamily
  <1>3. /\ \A f \in Families, s \in Subnets : done[f][s] = None
        /\ arp \in [Families -> [Subnets -> Attrs \cup {None}]]
        /\ route \in [Families -> [Subnets -> Nodes \cup {Vxlan, None}]]
        /\ done \in [Families -> [Subnets -> Attrs \cup {None}]]
        /\ fdb \in [Families -> [Attrs -> Nodes \cup {None}]]
    BY Zenon DEF Init, PerSubnet
  <1>4. /\ top = 1 /\ reg = "new" /\ handler = Idle /\ leases = [s \in Subnets |-> None]
        /\ updates = 0 /\ missing = FALSE /\ rec = <<>> /\ sub = FALSE /\ unread = {}
    BY Zenon DEF Init
  <1>5. rec \in Seq(RecType) /\ Len(rec) = 0
    BY <1>4
  <1>6. VType
    BY Zenon, <1>1, <1>2, <1>3, <1>4, <1>5 DEF VType, KernelType
  <1>7. Indices /\ Macs
    BY <1>1, <1>2, <1>4, <1>5 DEF Indices, Macs, AdvertisedMac
  <1> QED BY Zenon, <1>3, <1>4, <1>6, <1>7 DEF VInv, Leases

\* The entries, the leases and the handler, when none of them changes.
LEMMA DataSame ==
  ASSUME VInv, UNCHANGED <<link, arp, fdb, route, done, handler, leases, shared>>
  PROVE  Leases' /\ (handler' # Idle => Handling')
  <1>1. Leases'
    BY DEF VInv, Leases
  <1>2. ASSUME handler # Idle PROVE Handling'
    <2>1. \A f \in Families : (HasARP(f) <=> HasARP(f)') /\ (HasFDB(f) <=> HasFDB(f)')
      BY Zenon DEF HasARP, HasFDB
    <2> QED BY Zenon, <1>2, <2>1, HandlingFrame DEF VInv
  <1> QED BY Zenon, <1>1, <1>2

\* One goroutine of reCreateVxlan takes a step.
LEMMA RecSet ==
  ASSUME NEW r \in Seq(RecType), NEW i \in 1 .. Len(r), NEW x \in RecType
  PROVE  /\ [r EXCEPT ![i] = x] \in Seq(RecType) /\ Len([r EXCEPT ![i] = x]) = Len(r)
         /\ \A j \in 1 .. Len(r) : [r EXCEPT ![i] = x][j] = IF j = i THEN x ELSE r[j]
  OBVIOUS

\* The registration.
LEMMA RegisterKeeps == ASSUME VInv, Register PROVE VInv'
  <1>a. VType /\ KernelType /\ Indices /\ Macs
    BY Zenon DEF VInv, VType
  <1>b. top \in Nat /\ handler \in HandlerType \cup {Idle} /\ rec \in Seq(RecType)
        /\ link \in [Families -> LinkType] /\ dev \in [Families -> Nat]
    BY Zenon, <1>a DEF VType, KernelType
  <1>1. CASE RegisterDevice
    <2>1. /\ reg = "new" /\ dev' = [f \in Families |-> link'[f].idx]
          /\ UNCHANGED <<advert, handler, updates, missing, rec, leases, sub, shared, unread>>
      BY Zenon, <1>1 DEF RegisterDevice, env, mishaps
    <2>2. ~(updates > 0 \/ missing \/ Len(rec) > 0 \/ sub) /\ unread = {}
      BY Zenon, <1>a, <2>1 DEF Macs
    <2>3. ASSUME NEW got \in BOOLEAN, createVXLANDevice(got), reg' = "lease" PROVE VInv'
      <3>1. /\ KernelType' /\ top' = top + 2
            /\ \A f \in Families :
                 link'[f].idx # 0 /\ link'[f].mac # 0 /\ link'[f].idx <= top'
            /\ done' \in [Families -> [Subnets -> Attrs \cup {None}]]
            /\ Leases' /\ (handler # Idle => Handling')
        BY Zenon, <2>1, <2>3, CreateDevice
      <3>2. \A f \in Families : link'[f].idx \in Nat
        BY Zenon, <3>1 DEF KernelType, LinkType
      <3>3. VType'
        BY Zenon, <1>a, <2>1, <2>3, <3>1, <3>2 DEF VType
      <3>4. Indices'
        <4>1. ASSUME NEW x \in Nat, x <= top PROVE x <= top'
          BY <1>b, <3>1, <4>1
        <4>2. handler # Idle => \A f \in Families : handler.idx[f] <= top'
          BY Zenon, <1>a, <4>1, HandlerFields DEF Indices
        <4>3. \A i \in 1 .. Len(rec), f \in Families : rec[i].idx[f] <= top'
          <5>1. \A i \in 1 .. Len(rec) : rec[i] \in RecType
            BY <1>b
          <5> QED BY Zenon, <1>a, <4>1, <5>1 DEF Indices, RecType
        <4> QED BY Zenon, <2>1, <3>1, <4>2, <4>3 DEF Indices
      <3>5. Macs'
        BY Zenon, <2>1, <2>2, <2>3, <3>1 DEF Macs, AdvertisedMac
      <3> QED BY Zenon, <2>1, <3>1, <3>3, <3>4, <3>5 DEF VInv
    <2>4. CASE reg' = "failed" /\ UNCHANGED <<kernel, done>>
      <3>1. \A f \in Families : link[f].idx \in Nat
        BY Zenon, <1>b DEF LinkType
      <3>2. VType'
        BY Zenon, <1>a, <2>1, <2>4, <3>1 DEF VType, KernelType, kernel
      <3>3. Indices' /\ Macs'
        BY Zenon, <1>a, <2>1, <2>2, <2>4 DEF Indices, Macs, AdvertisedMac, kernel
      <3> QED BY Zenon, <2>1, <2>4, <3>2, <3>3, DataSame DEF VInv, kernel
    <2> QED BY Zenon, <1>1, <2>3, <2>4 DEF RegisterDevice
  <1>2. CASE RegisterLease
    <2>1. /\ reg = "lease"
          /\ UNCHANGED <<link, top, arp, fdb, route, dev, handler, updates, missing, rec,
                         leases, done, sub, shared, unread>>
          /\ \/ reg' = "configure" /\ advert' = [f \in Families |-> link[f].mac]
             \/ reg' = "failed" /\ advert' = advert
      BY Zenon, <1>2 DEF RegisterLease, env, kernel, mishaps
    <2>2. advert' \in [Families -> Nat]
      BY Zenon, <1>a, <1>b, <2>1 DEF VType, LinkType
    <2>3. VType'
      BY Zenon, <1>a, <2>1, <2>2 DEF VType, KernelType
    <2>4. Indices' /\ Macs'
      BY Zenon, <1>a, <2>1 DEF Indices, Macs, AdvertisedMac
    <2> QED BY Zenon, <2>1, <2>3, <2>4, DataSame DEF VInv
  <1>3. CASE RegisterConfigure
    <2>1. /\ reg = "configure"
          /\ UNCHANGED <<link, top, arp, fdb, route, dev, advert, handler, updates, missing, rec,
                         leases, done, sub, shared, unread>>
          /\ reg' = IF configureDeviceIPv4IPv6(dev) THEN "run" ELSE "failed"
      BY Zenon, <1>3 DEF RegisterConfigure, env, kernel, mishaps
    <2>2. VType'
      BY Zenon, <1>a, <2>1 DEF VType, KernelType
    <2>3. Indices'
      BY Zenon, <1>a, <2>1 DEF Indices
    <2>4. reg' = "run" => \A f \in Families : link[f].idx # 0
      BY Zenon, <1>a, <2>1 DEF configureDeviceIPv4IPv6, Configure, Macs
    <2>5. Macs'
      BY Zenon, <1>a, <2>1, <2>4 DEF Macs, AdvertisedMac
    <2> QED BY Zenon, <2>1, <2>2, <2>3, <2>5, DataSame DEF VInv
  <1> QED BY Zenon, <1>1, <1>2, <1>3 DEF Register

\* The handler.
LEMMA HandlerKeeps ==
  ASSUME VInv,
         \/ HandlerCall
         \/ \E s \in Subnets : EventRemoved(s) \/ \E l \in Attrs : EventAdded(s, l)
  PROVE  VInv'
  <1>a. VType /\ KernelType /\ Indices /\ Macs /\ Leases
    BY Zenon DEF VInv, VType
  <1>b. ASSUME UNCHANGED <<link, top, dev, advert, reg, updates, missing, rec, sub, unread>>,
               KernelType', done' \in [Families -> [Subnets -> Attrs \cup {None}]],
               leases' \in [Subnets -> Attrs \cup {None}],
               handler' \in HandlerType \cup {Idle},
               handler' # Idle => /\ handler'.idx \in {dev, handler.idx}
                                  /\ handler = Idle => handler'.idx = dev,
               Leases', handler' # Idle => Handling'
        PROVE  VInv'
    <2>1. VType'
      BY Zenon, <1>a, <1>b DEF VType
    <2>2. Indices'
      BY Zenon, <1>a, <1>b DEF Indices
    <2>3. Macs'
      BY Zenon, <1>a, <1>b DEF Macs, AdvertisedMac
    <2> QED BY Zenon, <1>b, <2>1, <2>2, <2>3 DEF VInv
  <1>c. ASSUME handler # Idle, NEW q \in Seq(CallType), Proceed(q)
        PROVE  handler' # Idle => handler'.idx = handler.idx
    BY Zenon, <1>a, <1>c, HandlerFields, Proceeds
  <1>d. handler # Idle => Tail(handler.todo) \in Seq(CallType)
    BY Zenon, <1>a, HandlerFields, TailCalls DEF VInv, Handling
  <1>1. CASE CallSucceeds
    <2>1. /\ UNCHANGED <<link, top, dev, advert, reg, updates, missing, rec, leases, sub, unread>>
          /\ handler # Idle /\ Proceed(Tail(handler.todo))
      BY Zenon, <1>1 DEF CallSucceeds, CallFrame, env, mishaps
    <2>2. leases' \in [Subnets -> Attrs \cup {None}]
      BY Zenon, <1>a, <2>1 DEF VType
    <2> QED BY Zenon, <1>1, <1>b, <1>c, <1>d, <2>1, <2>2, CallDone
  <1>2. CASE CallFails
    <2>1. /\ UNCHANGED <<link, top, dev, advert, reg, updates, missing, rec, leases, sub, unread>>
          /\ UNCHANGED <<arp, fdb, route, done>> /\ handler # Idle
          /\ \E q : Proceed(q)
      BY Zenon, <1>2 DEF CallFails, CallFrame, env, mishaps
    <2>2. /\ leases' \in [Subnets -> Attrs \cup {None}] /\ KernelType'
          /\ done' \in [Families -> [Subnets -> Attrs \cup {None}]]
      BY Zenon, <1>a, <2>1 DEF VType, KernelType
    <2>3. handler \in HandlerType
      BY Zenon, <1>a, <2>1, HandlerFields
    <2>4. handler' # Idle => handler'.idx = handler.idx
      BY Zenon, <2>1, <2>3 DEF Proceed, HandlerType
    <2> QED BY Zenon, <1>2, <1>b, <2>1, <2>2, <2>4, CallFailed
  <1>3. ASSUME NEW s \in Subnets, NEW l \in Attrs, EventAdded(s, l) PROVE VInv'
    <2>1. /\ UNCHANGED <<link, top, arp, fdb, route, kernel, dev, advert, reg, updates,
                         missing, rec, sub, unread>>
          /\ leases' = [leases EXCEPT ![s] = l]
          /\ done' = [f \in Families |-> [done[f] EXCEPT ![s] = None]]
          /\ Handle(TRUE, s, l)
      BY Zenon, <1>3 DEF EventAdded, kernel, mishaps
    <2>2. /\ \A u \in Subnets : u # s /\ leases[u] = l => l \in shared'
          /\ shared \subseteq shared' \cup {l}
      BY Zenon, <1>3 DEF EventAdded
    <2>3. /\ handler' \in HandlerType /\ handler'.idx = dev
          /\ leases' \in [Subnets -> Attrs \cup {None}]
          /\ done' \in [Families -> [Subnets -> Attrs \cup {None}]]
          /\ Leases' /\ Handling'
      BY ZenonT(40), <2>1, <2>2, EventTaken
    <2>4. KernelType'
      BY Zenon, <1>a, <2>1 DEF KernelType
    <2> QED BY Zenon, <1>b, <2>1, <2>3, <2>4
  <1>4. ASSUME NEW s \in Subnets, EventRemoved(s) PROVE VInv'
    <2>1. /\ UNCHANGED <<link, top, arp, fdb, route, kernel, dev, advert, reg, updates,
                         missing, rec, sub, shared, unread>>
          /\ leases' = [leases EXCEPT ![s] = None]
          /\ done' = [f \in Families |-> [done[f] EXCEPT ![s] = None]]
          /\ Handle(FALSE, s, leases[s]) /\ leases[s] # None
      BY Zenon, <1>4 DEF EventRemoved, kernel, mishaps
    <2>2. leases[s] \in Attrs
      BY Zenon, <1>a, <2>1 DEF VType
    <2>3. /\ \A u \in Subnets : u # s /\ leases[u] = leases[s] => leases[s] \in shared'
          /\ shared \subseteq shared' \cup {leases[s]}
      BY Zenon, <1>a, <2>1 DEF Leases
    <2>4. /\ handler' \in HandlerType /\ handler'.idx = dev
          /\ leases' \in [Subnets -> Attrs \cup {None}]
          /\ done' \in [Families -> [Subnets -> Attrs \cup {None}]]
          /\ Leases' /\ Handling'
      BY Zenon, <2>1, <2>2, <2>3, EventTaken
    <2>5. KernelType'
      BY Zenon, <1>a, <2>1 DEF KernelType
    <2> QED BY Zenon, <1>b, <2>1, <2>4, <2>5
  <1> QED BY Zenon, <1>1, <1>2, <1>3, <1>4 DEF HandlerCall

\* The device is deleted, noticed and made anew.
LEMMA DeviceKeeps ==
  ASSUME VInv,
         \/ \E f \in Families : LinkDel(f)
         \/ LinkSubscribe \/ watchVXLANDevice \/ RunMissing \/ Recreate
  PROVE  VInv'
  <1>a. VType /\ KernelType /\ Indices /\ Macs
    BY Zenon DEF VInv, VType
  <1>b. /\ top \in Nat /\ updates \in Nat /\ rec \in Seq(RecType)
        /\ link \in [Families -> LinkType] /\ dev \in [Families -> Nat]
        /\ \A i \in 1 .. Len(rec) : rec[i] \in RecType
    BY <1>a DEF VType, KernelType
  <1>1. ASSUME NEW f \in Families, LinkDel(f) PROVE VInv'
    <2> DEFINE l == [link EXCEPT ![f] = NoLink]
    <2>1. /\ Relink(l) /\ reg \in {"lease", "configure", "run"}
          /\ updates' = (IF f = "v4" /\ sub THEN updates + 1 ELSE updates)
          /\ UNCHANGED <<top, dev, advert, reg, handler, missing, rec, leases, sub, shared, unread>>
      BY Zenon, <1>1 DEF LinkDel
    <2>2. /\ l \in [Families -> LinkType] /\ l[f].idx = 0
          /\ \A g \in Families : g # f => l[g] = link[g]
      BY Zenon, <1>b DEF NoLink, LinkType
    <2> HIDE DEF l
    <2>3. /\ link' = l
          /\ arp' \in [Families -> [Subnets -> Attrs \cup {None}]]
          /\ fdb' \in [Families -> [Attrs -> Nodes \cup {None}]]
          /\ route' \in [Families -> [Subnets -> Nodes \cup {Vxlan, None}]]
          /\ done' \in [Families -> [Subnets -> Attrs \cup {None}]]
          /\ Leases' /\ (handler # Idle => Handling')
      BY Zenon, <2>1, <2>2, RelinkKeeps
    <2>4. VType'
      BY <1>a, <1>b, <2>1, <2>2, <2>3 DEF VType, KernelType
    <2>5. Indices'
      <3>1. ASSUME NEW g \in Families PROVE l[g].idx <= top
        <4>1. CASE g = f
          BY <1>b, <2>2, <4>1
        <4>2. CASE g # f
          BY Zenon, <1>a, <2>2, <4>2 DEF Indices
        <4> QED BY Zenon, <4>1, <4>2
      <3> QED BY Zenon, <1>a, <2>1, <2>3, <3>1 DEF Indices
    <2>6. Macs'
      <3>1. updates' > 0 => reg = "run"
        BY Zenon, <1>a, <2>1 DEF Macs
      <3> QED BY Zenon, <1>a, <2>1, <2>2, <2>3, <3>1 DEF Macs, AdvertisedMac
    <2> QED BY Zenon, <2>1, <2>3, <2>4, <2>5, <2>6 DEF VInv
  <1>2. CASE watchVXLANDevice
    <2>1. /\ UNCHANGED <<link, top, arp, fdb, route, dev, advert, reg, handler, rec, leases, done,
                         sub, shared, unread>>
          /\ updates > 0 /\ updates' = updates - 1 /\ missing' = TRUE
      BY Zenon, <1>2 DEF watchVXLANDevice, kernel, env, mishaps
    <2>2. updates' \in Nat
      BY <1>b, <2>1
    <2>3. VType' /\ Indices' /\ Macs'
      BY Zenon, <1>a, <2>1, <2>2 DEF VType, KernelType, Indices, Macs, AdvertisedMac
    <2> QED BY Zenon, <2>1, <2>3, DataSame DEF VInv
  <1>3. CASE RunMissing
    <2> DEFINE x == [pc |-> "create", idx |-> PerFamily(0)]
    <2>1. /\ UNCHANGED <<link, top, arp, fdb, route, dev, advert, reg, handler, updates,
                         leases, done, sub, shared, unread>>
          /\ missing /\ missing' = FALSE /\ rec' = Append(rec, x)
      BY Zenon, <1>3 DEF RunMissing, kernel, env, mishaps
    <2>2. x \in RecType /\ \A f \in Families : x.idx[f] = 0
      BY Zenon DEF RecType, PerFamily
    <2> HIDE DEF x
    <2>3. /\ rec' \in Seq(RecType) /\ Len(rec') = Len(rec) + 1
          /\ \A i \in 1 .. Len(rec') : rec'[i] = x \/ (i \in 1 .. Len(rec) /\ rec'[i] = rec[i])
      BY <1>b, <2>1, <2>2
    <2>4. VType'
      BY Zenon, <1>a, <2>1, <2>3 DEF VType, KernelType
    <2>5. Indices'
      <3>1. \A i \in 1 .. Len(rec'), f \in Families : rec'[i].idx[f] <= top
        BY <1>a, <1>b, <2>2, <2>3 DEF Indices
      <3> QED BY Zenon, <1>a, <2>1, <3>1 DEF Indices
    <2>6. Macs'
      BY Zenon, <1>a, <2>1 DEF Macs, AdvertisedMac
    <2> QED BY Zenon, <2>1, <2>4, <2>5, <2>6, DataSame DEF VInv
  <1>4. ASSUME NEW i \in 1 .. Len(rec), RecCreate(i) PROVE VInv'
    <2> DEFINE x == [pc |-> "configure", idx |-> [f \in Families |-> link'[f].idx]]
    <2>0. PICK got \in BOOLEAN : RecDevices(i, got)
      BY Zenon, <1>4 DEF RecCreate
    <2>1. /\ createVXLANDevice(got) /\ rec' = [rec EXCEPT ![i] = x]
          /\ unread' = IF got THEN unread
                       ELSE unread \cup {link'[f].idx : f \in {g \in Families : link'[g] # link[g]}}
          /\ UNCHANGED <<dev, advert, reg, handler, updates, missing, leases, sub, shared>>
      BY Zenon, <1>4, <2>0 DEF RecCreate, RecDevices, RecFrame, env
    <2>2. /\ KernelType' /\ top' = top + 2
          /\ \A f \in Families :
               /\ link'[f].idx # 0 /\ link'[f].mac # 0 /\ link'[f].idx <= top'
               /\ \/ link'[f] = link[f] /\ link[f].idx # 0
                  \/ StoredMac /\ got /\ advert[f] # 0 => link'[f].mac = advert[f]
          /\ done' \in [Families -> [Subnets -> Attrs \cup {None}]]
          /\ Leases' /\ (handler # Idle => Handling')
      BY Zenon, <2>1, CreateDevice
    <2>3. x \in RecType /\ \A f \in Families : x.idx[f] = link'[f].idx
      BY Zenon, <2>2 DEF RecType, KernelType, LinkType
    <2> HIDE DEF x
    <2>4. /\ rec' \in Seq(RecType) /\ Len(rec') = Len(rec)
          /\ \A j \in 1 .. Len(rec) : rec'[j] = IF j = i THEN x ELSE rec[j]
      BY <1>b, <2>1, <2>3, RecSet
    <2>5. VType'
      BY Zenon, <1>a, <2>1, <2>2, <2>4 DEF VType
    <2>6. Indices'
      <3>1. ASSUME NEW y \in Nat, y <= top PROVE y <= top'
        BY <1>b, <2>2, <3>1
      <3>2. \A f \in Families : dev[f] <= top'
        BY Zenon, <1>a, <1>b, <3>1 DEF Indices
      <3>3. handler # Idle => \A f \in Families : handler.idx[f] <= top'
        BY Zenon, <1>a, <3>1, HandlerFields DEF Indices
      <3>4. \A j \in 1 .. Len(rec), f \in Families : rec[j].idx[f] <= top'
        BY Zenon, <1>a, <1>b, <3>1 DEF Indices, RecType
      <3>5. \A j \in 1 .. Len(rec'), f \in Families : rec'[j].idx[f] <= top'
        BY Zenon, <2>2, <2>3, <2>4, <3>4
      <3> QED BY Zenon, <2>1, <2>2, <3>2, <3>3, <3>5 DEF Indices
    <2>7. Macs'
      <3>1. reg = "run"
        BY <1>a, <1>b DEF Macs
      <3>2. ASSUME StoredMac, NEW f \in Families, link'[f].idx \notin unread'
            PROVE  link'[f].mac = advert[f]
        <4>1. unread \subseteq unread'
          BY Zenon, <2>1
        <4>2. CASE link'[f] = link[f] /\ link[f].idx # 0
          BY Zenon, <1>a, <3>1, <3>2, <4>1, <4>2 DEF Macs, AdvertisedMac
        <4>3. CASE ~(link'[f] = link[f] /\ link[f].idx # 0)
          <5>1. link'[f] # link[f]
            BY Zenon, <2>2, <4>3
          <5>2. got
            BY Zenon, <2>1, <3>2, <5>1
          <5> QED BY Zenon, <1>a, <2>2, <3>1, <3>2, <4>3, <5>2 DEF Macs
        <4> QED BY Zenon, <4>2, <4>3
      <3> QED BY Zenon, <1>a, <2>1, <2>2, <2>4, <3>1, <3>2 DEF Macs, AdvertisedMac
    <2> QED BY Zenon, <2>1, <2>2, <2>5, <2>6, <2>7 DEF VInv
  <1>5. ASSUME NEW i \in 1 .. Len(rec), NEW p \in {"create", "publish", "over"},
               rec' = [rec EXCEPT ![i].pc = p], dev' \in {dev, rec[i].idx},
               UNCHANGED <<link, top, arp, fdb, route, done, advert, reg, handler, updates, missing,
                           leases, sub, shared, unread>>
        PROVE  VInv'
    <2>1. [rec[i] EXCEPT !.pc = p] \in RecType /\ [rec[i] EXCEPT !.pc = p].idx = rec[i].idx
      BY Zenon, <1>b DEF RecType
    <2>2. rec' = [rec EXCEPT ![i] = [rec[i] EXCEPT !.pc = p]]
      BY Zenon, <1>5
    <2>3. /\ rec' \in Seq(RecType) /\ Len(rec') = Len(rec)
          /\ \A j \in 1 .. Len(rec) : rec'[j].idx = rec[j].idx
      BY <1>b, <2>1, <2>2, RecSet
    <2>4. dev' \in [Families -> Nat] /\ \A f \in Families : dev'[f] <= top
      BY Zenon, <1>5, <1>a, <1>b DEF Indices, RecType
    <2>5. VType'
      BY Zenon, <1>5, <1>a, <2>3, <2>4 DEF VType, KernelType
    <2>6. Indices'
      BY <1>5, <1>a, <2>3, <2>4 DEF Indices
    <2>7. Macs'
      <3>1. reg = "run"
        BY <1>a, <1>b DEF Macs
      <3> QED BY Zenon, <1>5, <1>a, <2>3, <3>1 DEF Macs, AdvertisedMac
    <2> QED BY Zenon, <1>5, <2>5, <2>6, <2>7, DataSame DEF VInv
  <1>6. ASSUME NEW i \in 1 .. Len(rec), RecConfigure(i) \/ RecPublish(i) \/ RecCancelled(i)
        PROVE  VInv'
    <2>1. UNCHANGED <<link, top, arp, fdb, route, done, advert, reg, handler, updates,
                      missing, leases, sub, shared, unread>>
      BY Zenon, <1>6 DEF RecConfigure, RecPublish, RecCancelled, RecFrame, kernel, env
    <2>2. /\ dev' \in {dev, rec[i].idx}
          /\ \E p \in {"create", "publish", "over"} : rec' = [rec EXCEPT ![i].pc = p]
      BY Zenon, <1>6 DEF RecConfigure, RecPublish, RecCancelled
    <2> QED BY Zenon, <1>5, <2>1, <2>2
  <1>7. CASE LinkSubscribe
    <2>1. /\ UNCHANGED <<link, top, arp, fdb, route, dev, advert, reg, handler, updates, missing,
                         rec, leases, done, shared, unread>>
          /\ reg = "run"
      BY Zenon, <1>7 DEF LinkSubscribe, kernel, mishaps
    <2>2. VType' /\ Indices' /\ Macs'
      BY Zenon, <1>a, <2>1 DEF VType, KernelType, Indices, Macs, AdvertisedMac
    <2> QED BY Zenon, <2>1, <2>2, DataSame DEF VInv
  <1> QED BY Zenon, <1>1, <1>2, <1>3, <1>4, <1>6, <1>7 DEF Recreate, Rec

\* Every step keeps the invariant.
LEMMA VInvStep == VInv /\ [Next]_vars => VInv'
  <1> SUFFICES ASSUME VInv, [Next]_vars PROVE VInv'
    BY Zenon
  <1>1. ASSUME UNCHANGED <<link, top, arp, fdb, route, dev, advert, reg, handler, updates, missing,
                           rec, leases, done, sub, shared, unread>>
        PROVE  VInv'
    <2>1. VType' /\ Indices' /\ Macs'
      BY Zenon, <1>1 DEF VInv, VType, KernelType, Indices, Macs, AdvertisedMac
    <2> QED BY Zenon, <1>1, <2>1, DataSame DEF VInv
  <1>2. CASE ExtIface \/ Cancel \/ UNCHANGED vars
    BY Zenon, <1>1, <1>2 DEF ExtIface, Cancel, vars, kernel, env, mishaps
  <1> QED BY Zenon, <1>2, RegisterKeeps, HandlerKeeps, DeviceKeeps DEF Next

\* The invariant in every reachable state.
LEMMA VInvAlways == Spec => []VInv
  BY VInvInit, VInvStep, PTL DEF Spec

-----------------------------------------------------------------------------
\* With stored MACs, the devices of a running node have the MACs its lease advertises,
\* however often they are deleted and made anew by reCreateVxlan with the node's
\* annotations at hand.
THEOREM DeviceKeepsMac == Spec => []AdvertisedMac
  <1>1. VInv => AdvertisedMac
    BY Zenon DEF VInv, Macs
  <1> QED BY <1>1, VInvAlways, PTL

\* What handleSubnetEvents completed for a subnet stays in place until the next event
\* for that subnet or the loss of the device, unless another subnet had the same MAC.
THEOREM PeersStayReachable == Spec => []PeerReachable
  <1>1. VInv => PeerReachable
    <2> SUFFICES ASSUME VInv, NEW f \in Families, NEW s \in Subnets, done[f][s] # None,
                        done[f][s] \notin shared
                 PROVE  Reaches(f, s) = done[f][s][1]
      BY Zenon DEF PeerReachable
    <2>1. /\ done[f][s] \in Attrs
          /\ \/ route[f][s] = done[f][s][1]
             \/ /\ route[f][s] = Vxlan
                /\ arp[f][s] = done[f][s] /\ fdb[f][done[f][s]] = done[f][s][1]
      BY DEF VInv, VType, Leases
    <2> QED BY Zenon, <2>1, NodeOf DEF Reaches
  <1> QED BY <1>1, VInvAlways, PTL

\* A route over the device is only set on top of the entries it relies on, whatever
\* became of the device between the calls.
THEOREM RouteSetLast == Spec => RouteLast
  <1> DEFINE Relies(f, s) ==
        route[f][s] # Vxlan /\ route'[f][s] = Vxlan
          => arp[f][s] # None /\ fdb[f][arp[f][s]] # None
  <1>1. VInv /\ [Next]_vars => [\A f \in Families, s \in Subnets : Relies(f, s)]_vars
    <2> SUFFICES ASSUME VInv, Next, NEW f \in Families, NEW s \in Subnets,
                        route[f][s] # Vxlan, route'[f][s] = Vxlan
                 PROVE  arp[f][s] # None /\ fdb[f][arp[f][s]] # None
      BY Zenon DEF vars
    <2>1. ASSUME NEW l, Relink(l) PROVE FALSE
      BY <2>1, VxlanAssumption DEF Relink
    <2>2. CallSucceeds
      <3>1. route' # route
        BY Zenon
      <3>2. ASSUME \/ RegisterDevice \/ \E g \in Families : LinkDel(g)
                   \/ \E i \in 1 .. Len(rec) : RecCreate(i)
            PROVE  FALSE
        BY Zenon, <2>1, <3>1, <3>2
          DEF RegisterDevice, LinkDel, RecCreate, RecDevices, createVXLANDevice, kernel
      <3> QED BY Zenon, <3>1, <3>2
        DEF Next, Register, RegisterLease, RegisterConfigure, HandlerCall, CallFails, EventRemoved,
            EventAdded, LinkSubscribe, watchVXLANDevice, RunMissing, Recreate, Rec, RecConfigure, RecPublish,
            RecCancelled, ExtIface, Cancel, kernel
    <2> DEFINE c == handler.todo[1]
    <2>3. /\ VType /\ handler # Idle /\ handler.s \in Subnets /\ handler.l \in Attrs
          /\ handler.todo \in Seq(CallType) /\ Len(handler.todo) > 0
      BY Zenon, <2>2, HandlerFields DEF VInv, CallSucceeds, Handling
    <2>4. c \in CallType /\ Possible(c) /\ NeighSet(c) /\ RouteSet(c)
      BY Zenon, <2>2, <2>3, TailCalls DEF CallSucceeds
    <2> HIDE DEF c
    <2>5. /\ f = c.f /\ s = handler.s
          /\ route'[f][s] = CASE c.op = "RouteReplace" -> Target(c.f)
                              [] c.op = "RouteDel" -> None [] OTHER -> route[c.f][s]
      BY <2>3, <2>4, CallEffect
    <2>6. c.op = "RouteReplace" /\ Target(f) = Vxlan
      BY Zenon, <2>5, VxlanAssumption
    <2>7. c = Call("RouteReplace", f)
      BY Zenon, <2>4, <2>5, <2>6 DEF CallType, Call
    <2>8. ~handler.direct[f]
      BY Zenon, <2>3, <2>6, NodeOf DEF Target
    <2>9. handler.idx[f] # 0 /\ link[f].idx = handler.idx[f]
      BY Zenon, <2>4, <2>5, <2>6, <2>8 DEF Possible, IndexFor
    <2>10. HasARP(f) /\ HasFDB(f)
      BY Zenon, <2>3, <2>7, <2>8, RouteRelies DEF c
    <2>11. arp[f][s] = handler.l /\ fdb[f][handler.l] = handler.l[1]
      BY Zenon, <2>5, <2>9, <2>10 DEF HasARP, HasFDB
    <2> QED BY Zenon, <2>3, <2>11, NodeOf
  <1> QED BY <1>1, VInvAlways, PTL DEF Spec, RouteLast
=============================================================================
