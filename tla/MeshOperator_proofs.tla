------------------------ MODULE MeshOperator_proofs ------------------------
(* Proofs about MeshOperator: the operator deletes nothing that a node of its list   *)
(* stands for, and no registration of a flanneld that is starting is lost.           *)
(*                                                                                   *)
(* The invariant has two halves. OpInv is about one reconcile: a reconcile that      *)
(* reaches the collection has served every node it listed, and what it is about to   *)
(* delete is nothing it has decided to keep. ClaimInv, HoldInv and FindInv are       *)
(* about the copies of an identity: the Secret, the credentials of the process, the  *)
(* state file, the annotation and the operator's copy of it. A Mesh IP is in the     *)
(* hands of one node; a connector id that a node knows was made for it; and of all   *)
(* the ids a node knows at most one is still a connector's.                          *)
EXTENDS MeshOperator, TLAPS

-----------------------------------------------------------------------------
(* The invariant.                                                          *)

Fields == {"pc", "snap", "todo", "cur", "id", "conns", "routes", "ips", "err", "gc", "text"}

IsRun(o) == DOMAIN o = Fields /\ o = [f \in Fields |-> o[f]]

Loop == {"connector", "create", "secret", "route"}

Stages == {"hosts", "reload", "gcroutes", "delroutes", "gcconns", "delconns", "delregs"}

Claim == [conn : Nat, ip : Nat]

Creds == [conn : Nat, owner : Nat]

Pcs == {"down", "supersede", "refresh", "enroll", "save", "lease", "run"}

\* The list of nodes of a reconcile.
ListOK(s) ==
  DOMAIN s \subseteq Nodes /\ \A n \in DOMAIN s : s[n].uid \in Nat /\ s[n].ann \in {None} \cup Claim

TypeInv ==
  /\ count \in [conns : Nat, regs : Nat, faults : Nat] /\ count.conns <= MaxIds /\ count.regs <= MaxIds
  /\ up \in [Nodes -> Nat] /\ ann \in [Nodes -> {None} \cup Claim]
  /\ secret \in [Nodes -> {None} \cup Creds] /\ file \in [Nodes -> {None} \cup Claim]
  /\ fl \in [Nodes -> [pc : Pcs, creds : Nat, ip : Nat]]
  /\ IsRun(op) /\ ListOK(op.snap)
  /\ \A r \in regs : DOMAIN r = {"ip", "name", "old"}

IdsOf(cs) == {c.id : c \in cs}

\* The Secret of a node holds, and the node has advertised, what the reconcile keeps.
SecretOf(o, sec, n) == sec[n] # None => sec[n].conn \in o.conns

Served(o, sec, n) ==
  /\ SecretOf(o, sec, n)
  /\ o.snap[n].ann # None => /\ Route(n, o.snap[n].ann.conn) \in o.routes
                             /\ <<n, o.snap[n].ann.ip>> \in o.ips
                             /\ o.snap[n].ann.conn \in o.conns

\* A reconcile that reaches the collection has served every node of its list.
Serves(o, cs, sec) ==
  /\ o.pc \in {"idle"} \cup Loop \cup Stages
  /\ o.pc = "idle" => o = Idle
  /\ o.todo \subseteq DOMAIN o.snap
  /\ o.pc \in Loop => o.cur \in DOMAIN o.snap
  /\ o.pc \in {"secret", "route"} => o.id \in o.conns
  /\ o.conns \subseteq IdsOf(cs)
  /\ o.pc \in Loop => \A n \in DOMAIN o.snap \ (o.todo \cup {o.cur}) : o.err \/ Served(o, sec, n)
  /\ o.pc \in Stages => \A n \in DOMAIN o.snap : Served(o, sec, n)
  /\ o.pc = "route" => /\ SecretOf(o, sec, o.cur) /\ o.snap[o.cur].ann # None
                       /\ o.snap[o.cur].ann.conn = o.id /\ <<o.cur, o.snap[o.cur].ann.ip>> \in o.ips

\* What it is about to delete is nothing that it keeps, and carries the prefix of the
\* cluster, as far as it has a name.
Collects(o) ==
  /\ o.pc = "delroutes" => \A r \in o.gc : r \notin o.routes
  /\ o.pc = "delconns" => \A c \in o.gc : c.id \notin o.conns /\ Owned(c.name)
  /\ o.pc = "delregs" => \A g \in o.gc : g.old /\ Owned(g.name) /\ \A p \in o.ips : p[2] # g.ip

OpInv == Serves(op, conns, secret) /\ Collects(op)

-----------------------------------------------------------------------------
(* The record of a reconcile.                                              *)

\* The operator between two reconciles.
LEMMA IdleFacts ==
  /\ IsRun(Idle) /\ Idle.pc = "idle" /\ Idle.snap = <<>> /\ DOMAIN Idle.snap = {}
  /\ Idle.todo = {} /\ Idle.conns = {}
  <1>1. DOMAIN <<>> = {}
    OBVIOUS
  <1> QED BY Zenon, <1>1 DEF IsRun, Fields, Idle

\* The fields that a step from node to node leaves alone.
Keeps(q, o) ==
  /\ IsRun(q) /\ q.snap = o.snap /\ q.conns = o.conns /\ q.routes = o.routes /\ q.ips = o.ips
  /\ q.err = o.err

Turns(q, o) ==
  \/ q = Idle
  \/ /\ q.pc = "connector" /\ q.cur \in o.todo /\ q.todo = o.todo \ {q.cur} /\ Keeps(q, o)
  \/ /\ q.pc = "hosts" /\ o.todo = {} /\ q.todo = {} /\ ~o.err /\ Keeps(q, o)

\* NextNode takes the next node, goes on or gives up.
LEMMA NextNodeFacts ==
  ASSUME NEW o, IsRun(o)
  PROVE  Turns(NextNode(o), o)
  <1>1. CASE o.todo # {}
    <2> DEFINE x == First(o.todo)
               q == [o EXCEPT !.pc = "connector", !.cur = x, !.id = 0, !.todo = @ \ {x}]
    <2>1. NextNode(o) = q
      BY Zenon, <1>1 DEF NextNode
    <2>2. x \in o.todo
      BY Zenon, <1>1 DEF First
    <2> HIDE DEF x
    <2>3. q.pc = "connector" /\ q.cur = x /\ q.todo = o.todo \ {x} /\ Keeps(q, o)
      BY Zenon DEF IsRun, Fields, Keeps
    <2> HIDE DEF q
    <2> QED BY Zenon, <2>1, <2>2, <2>3 DEF Turns
  <1>2. CASE o.todo = {} /\ ~o.err
    <2> DEFINE q == [o EXCEPT !.pc = "hosts", !.cur = None, !.id = 0]
    <2>1. NextNode(o) = q
      BY Zenon, <1>2 DEF NextNode
    <2>2. q.pc = "hosts" /\ q.todo = o.todo /\ Keeps(q, o)
      BY Zenon DEF IsRun, Fields, Keeps
    <2> HIDE DEF q
    <2> QED BY Zenon, <1>2, <2>1, <2>2 DEF Turns
  <1>3. CASE o.todo = {} /\ o.err
    BY Zenon, <1>3 DEF NextNode, Turns
  <1> QED BY Zenon, <1>1, <1>2, <1>3

\* The idle operator.
LEMMA IdleServes ==
  ASSUME NEW cs, NEW sec
  PROVE  Serves(Idle, cs, sec) /\ Collects(Idle) /\ IsRun(Idle) /\ ListOK(Idle.snap)
  <1>1. "idle" \notin Loop /\ "idle" \notin Stages /\ "idle" \notin {"secret", "route"}
        /\ "idle" # "route" /\ "idle" \notin {"delroutes", "delconns", "delregs"}
    BY DEF Loop, Stages
  <1> QED BY Zenon, <1>1, IdleFacts DEF Serves, Collects, ListOK

OpOK(o, cs, sec) == Serves(o, cs, sec) /\ Collects(o) /\ IsRun(o) /\ ListOK(o.snap)

\* Other programs add connectors and take Secrets away.
LEMMA ServesFrame ==
  ASSUME NEW o, NEW cs, NEW sec, NEW ds, NEW tec, OpOK(o, cs, sec), IdsOf(cs) \subseteq IdsOf(ds),
         \A n \in Nodes : tec[n] = sec[n] \/ tec[n] = None
  PROVE  OpOK(o, ds, tec)
  <1>1. ASSUME NEW n \in DOMAIN o.snap, SecretOf(o, sec, n) PROVE SecretOf(o, tec, n)
    <2>1. n \in Nodes
      BY Zenon DEF OpOK, ListOK
    <2>2. tec[n] = sec[n] \/ tec[n] = None
      BY Zenon, <2>1
    <2> QED BY Zenon, <1>1, <2>2 DEF SecretOf
  <1>2. ASSUME NEW n \in DOMAIN o.snap, Served(o, sec, n) PROVE Served(o, tec, n)
    BY Zenon, <1>1, <1>2 DEF Served
  <1>3. "route" \in Loop
    BY DEF Loop
  <1>4. Serves(o, ds, tec)
    BY Zenon, <1>1, <1>2, <1>3 DEF Serves, OpOK
  <1> QED BY Zenon, <1>4 DEF OpOK

OpKept == OpOK(op', conns', secret')

\* The two invariants give what the lemmas on a reconcile's record start from.
LEMMA OpParts ==
  TypeInv /\ OpInv => OpOK(op, conns, secret)
  BY Zenon DEF TypeInv, OpInv, OpOK

\* A reconcile that ends.
LEMMA IdleOp ==
  op' = Idle => OpKept
  BY Zenon, IdleServes DEF OpKept, OpOK

\* The parts of the invariant that the stages use.
LEMMA OpFacts ==
  ASSUME TypeInv, OpInv
  PROVE  IsRun(op) /\ ListOK(op.snap) /\ op.conns \subseteq IdsOf(conns) /\ Collects(op)
         /\ Serves(op, conns, secret)
  BY Zenon DEF TypeInv, OpInv, Serves

-----------------------------------------------------------------------------
(* What a reconcile keeps, step by step.                                   *)

\* The steps of a reconcile at its nodes, and those after the last node.
AtNodes == ListNodes \/ ListConnectors \/ createConnector \/ ensureBootstrapSecret \/ EnsureRoute
Listings ==
  \/ ensureCoreDNSNodeHosts \/ ensureCoreDNSReload
  \/ ListRoutes \/ ListStaleConnectors \/ collectRegistrations
Deletions == DeleteRoute \/ DeleteConnector \/ DeleteDeviceRegistration

\* A step of a stage that changes nothing else.
StageMoves(q, o) ==
  /\ IsRun(q) /\ q.snap = o.snap /\ q.todo = o.todo /\ q.routes = o.routes /\ q.ips = o.ips
  /\ q.conns = o.conns

\* The reconcile goes on to another stage, or ends.
StageStep == op' = Idle \/ (op'.pc \in Stages /\ op'.snap = op.snap)

\* What the three deletions take: nothing that the reconcile keeps.
TakesRoutes ==
  /\ op.pc = "delroutes" /\ conns' = conns /\ regs' = regs
  /\ \A r \in routes : r \notin routes' => r \notin op.routes
TakesConnectors ==
  /\ op.pc = "delconns" /\ routes' = routes /\ regs' = regs
  /\ \A c \in conns : c \notin conns' => c.id \notin op.conns /\ Owned(c.name)
TakesRegistrations ==
  /\ op.pc = "delregs" /\ routes' = routes /\ conns' = conns
  /\ \A r \in regs : r \notin regs' => r.old /\ Owned(r.name) /\ \A p \in op.ips : p[2] # r.ip

\* Every step of a reconcile keeps OpInv, and a deletion takes nothing that is kept.
LEMMA OpSteps ==
  ASSUME TypeInv, OpInv
  PROVE  /\ AtNodes => OpKept
         /\ Listings \/ Deletions => OpKept /\ StageStep
         /\ DeleteRoute => TakesRoutes
         /\ DeleteConnector => TakesConnectors
         /\ DeleteDeviceRegistration => TakesRegistrations
  \* From node to node: every node that has been done is served, or there was an error.
  <1>TurnServes.
    ASSUME NEW o, IsRun(o), ListOK(o.snap), NEW cs, NEW sec, o.todo \subseteq DOMAIN o.snap,
           o.conns \subseteq IdsOf(cs),
           \A n \in DOMAIN o.snap \ o.todo : o.err \/ Served(o, sec, n)
    PROVE  LET q == NextNode(o) IN Serves(q, cs, sec) /\ Collects(q) /\ IsRun(q) /\ ListOK(q.snap)
    <2> USE <1>TurnServes
    <2> DEFINE q == NextNode(o)
    <2>1. Turns(q, o)
      BY Zenon, NextNodeFacts
    <2> HIDE DEF q
    <2>2. CASE q = Idle
      BY Zenon, <2>2, IdleServes DEF q
    <2>3. /\ "connector" \in Loop /\ "connector" \notin Stages /\ "connector" \notin {"secret", "route"}
          /\ "connector" \notin {"delroutes", "delconns", "delregs", "route", "idle"}
          /\ "hosts" \notin Loop /\ "hosts" \in Stages /\ "hosts" \notin {"secret", "route"}
          /\ "hosts" \notin {"delroutes", "delconns", "delregs", "route", "idle"}
      BY DEF Loop, Stages
    <2>4. ASSUME Keeps(q, o), NEW n \in DOMAIN o.snap, Served(o, sec, n) PROVE Served(q, sec, n)
      BY Zenon, <2>4 DEF Keeps, Served, SecretOf
    <2>5. CASE q.pc = "connector" /\ q.cur \in o.todo /\ q.todo = o.todo \ {q.cur} /\ Keeps(q, o)
      <3>1. ASSUME NEW n \in DOMAIN q.snap \ (q.todo \cup {q.cur}) PROVE q.err \/ Served(q, sec, n)
        <4>1. n \in DOMAIN o.snap \ o.todo
          BY Zenon, <2>5, <3>1 DEF Keeps
        <4> QED BY Zenon, <2>4, <2>5, <4>1 DEF Keeps
      <3>2. Serves(q, cs, sec)
        BY Zenon, <2>3, <2>5, <3>1 DEF Serves, Keeps
      <3>3. Collects(q) /\ IsRun(q) /\ ListOK(q.snap)
        BY Zenon, <2>3, <2>5 DEF Collects, Keeps
      <3> QED BY Zenon, <3>2, <3>3 DEF q
    <2>6. CASE q.pc = "hosts" /\ o.todo = {} /\ q.todo = {} /\ ~o.err /\ Keeps(q, o)
      <3>1. ASSUME NEW n \in DOMAIN q.snap PROVE Served(q, sec, n)
        <4>1. n \in DOMAIN o.snap \ o.todo
          BY Zenon, <2>6, <3>1 DEF Keeps
        <4> QED BY Zenon, <2>4, <2>6, <4>1
      <3>2. Serves(q, cs, sec)
        BY Zenon, <2>3, <2>6, <3>1 DEF Serves, Keeps
      <3>3. Collects(q) /\ IsRun(q) /\ ListOK(q.snap)
        BY Zenon, <2>3, <2>6 DEF Collects, Keeps
      <3> QED BY Zenon, <3>2, <3>3 DEF q
    <2> QED BY Zenon, <2>1, <2>2, <2>5, <2>6 DEF Turns, q

  \* An error of a node: the reconcile goes on and will not collect.
  <1>FailedServes.
    ASSUME NEW o, NEW cs, NEW sec, NEW ds, NEW tec, OpOK(o, cs, sec), IdsOf(cs) \subseteq IdsOf(ds)
    PROVE  OpOK(Failed(o), ds, tec)
    <2> USE <1>FailedServes
    <2> DEFINE u == [o EXCEPT !.err = TRUE]
    <2>1. /\ IsRun(u) /\ u.snap = o.snap /\ u.todo = o.todo /\ u.conns = o.conns /\ u.err = TRUE
      BY Zenon DEF IsRun, Fields, OpOK
    <2>2. Failed(o) = NextNode(u)
      BY Zenon DEF Failed
    <2> HIDE DEF u
    <2>3. u.todo \subseteq DOMAIN u.snap /\ u.conns \subseteq IdsOf(ds) /\ ListOK(u.snap)
      BY Zenon, <2>1 DEF OpOK, Serves
    <2>4. \A n \in DOMAIN u.snap \ u.todo : u.err \/ Served(u, tec, n)
      BY Zenon, <2>1
    <2> QED BY Zenon, <2>1, <2>2, <2>3, <2>4, <1>TurnServes DEF OpOK

  \* The next step for a node. The connectors it keeps may grow.
  <1>LoopServes.
    ASSUME NEW o, NEW cs, NEW sec, NEW ds, OpOK(o, cs, sec), o.pc \in Loop, IdsOf(cs) \subseteq IdsOf(ds),
           NEW q, IsRun(q), q.pc \in {"create", "secret"}, q.snap = o.snap, q.todo = o.todo, q.cur = o.cur,
           q.routes = o.routes, q.ips = o.ips, q.err = o.err, o.conns \subseteq q.conns,
           q.conns \subseteq IdsOf(ds), q.pc = "secret" => q.id \in q.conns
    PROVE  OpOK(q, ds, sec)
    <2> USE <1>LoopServes
    <2>1. ASSUME NEW n \in DOMAIN o.snap, Served(o, sec, n) PROVE Served(q, sec, n)
      BY Zenon, <2>1 DEF Served, SecretOf
    <2>2. /\ q.pc \in Loop /\ q.pc \notin Stages /\ q.pc # "route" /\ q.pc # "idle"
          /\ q.pc \notin {"delroutes", "delconns", "delregs"}
      BY DEF Loop, Stages
    <2>3. Serves(q, ds, sec)
      BY Zenon, <2>1, <2>2 DEF Serves, OpOK
    <2> QED BY Zenon, <2>2, <2>3 DEF OpOK, Collects

  \* The next stage.
  <1>StageServes.
    ASSUME NEW o, NEW cs, NEW sec, NEW ds, OpOK(o, cs, sec), o.pc \in Stages,
           NEW q, IsRun(q), q.pc \in Stages, q.snap = o.snap, q.todo = o.todo,
           q.routes = o.routes, q.ips = o.ips, q.conns = o.conns, o.conns \subseteq IdsOf(ds), Collects(q)
    PROVE  OpOK(q, ds, sec)
    <2> USE <1>StageServes
    <2>1. ASSUME NEW n \in DOMAIN o.snap, Served(o, sec, n) PROVE Served(q, sec, n)
      BY Zenon, <2>1 DEF Served, SecretOf
    <2>2. q.pc \notin Loop /\ q.pc # "route" /\ q.pc # "idle" /\ q.pc \notin {"secret", "route"}
      BY DEF Loop, Stages
    <2>3. Serves(q, ds, sec)
      BY Zenon, <2>1, <2>2 DEF Serves, OpOK
    <2> QED BY Zenon, <2>3 DEF OpOK

  \* reconcile lists the nodes and goes to the first.
  <1>ListNodesOp.
    ASSUME ListNodes
    PROVE  OpKept
    <2> USE <1>ListNodesOp
    <2> DEFINE S == [n \in Live |-> [uid |-> up[n], ann |-> ann[n]]]
               o == [Idle EXCEPT !.snap = S, !.todo = Live]
    <2>1. op' = NextNode(o)
      BY Zenon DEF ListNodes
    <2>2. DOMAIN S = Live /\ ListOK(S)
      <3>1. Live \subseteq Nodes
        BY Zenon DEF Live
      <3>2. ASSUME NEW n \in Live PROVE S[n].uid \in Nat /\ S[n].ann \in {None} \cup Claim
        <4>1. S[n] = [uid |-> up[n], ann |-> ann[n]] /\ n \in Nodes
          BY Zenon, <3>1
        <4>2. S[n].uid = up[n] /\ S[n].ann = ann[n]
          BY <4>1
        <4> QED BY Zenon, <4>1, <4>2 DEF TypeInv
      <3> QED BY Zenon, <3>1, <3>2 DEF ListOK
    <2> HIDE DEF S
    <2>3. IsRun(o) /\ o.snap = S /\ o.todo = Live /\ o.conns = {}
      BY Zenon DEF IsRun, Fields, Idle
    <2> HIDE DEF o
    <2>4. /\ ListOK(o.snap) /\ o.todo \subseteq DOMAIN o.snap /\ o.conns \subseteq IdsOf(conns')
          /\ \A n \in DOMAIN o.snap \ o.todo : o.err \/ Served(o, secret', n)
      BY Zenon, <2>2, <2>3
    <2> QED BY Zenon, <2>1, <2>3, <2>4, <1>TurnServes DEF OpKept, OpOK

  \* EnsureConnector lists the connectors of the node's name: the one it finds is kept.
  <1>ListConnectorsOp.
    ASSUME ListConnectors
    PROVE  OpKept
    <2> USE <1>ListConnectorsOp
    <2>1. OpOK(op, conns, secret) /\ IsRun(op)
      BY Zenon, OpParts DEF TypeInv
    <2>2. op.pc = "connector" /\ conns' = conns /\ secret' = secret /\ "connector" \in Loop
      BY DEF ListConnectors, Loop, cloud
    <2>3. CASE op' = Failed(op)
      BY Zenon, <2>1, <2>2, <2>3, <1>FailedServes DEF OpKept
    <2>4. CASE op' = [op EXCEPT !.pc = "create"]
      <3>1. /\ IsRun(op') /\ op'.pc = "create" /\ op'.snap = op.snap /\ op'.todo = op.todo
            /\ op'.cur = op.cur /\ op'.routes = op.routes /\ op'.ips = op.ips /\ op'.err = op.err
            /\ op'.conns = op.conns /\ op'.pc # "secret"
        BY <2>1, <2>4 DEF IsRun, Fields
      <3>2. op.conns \subseteq IdsOf(conns)
        BY Zenon, <2>1 DEF OpOK, Serves
      <3>3. op'.pc \in {"create", "secret"} /\ (op'.pc = "secret" => op'.id \in op'.conns)
        BY Zenon, <3>1
      <3>4. op.pc \in Loop /\ op.conns \subseteq op'.conns /\ op'.conns \subseteq IdsOf(conns)
        BY Zenon, <2>2, <3>1, <3>2
      <3>5. OpOK(op', conns, secret)
        BY Zenon, <2>1, <3>1, <3>3, <3>4, <1>LoopServes
      <3> QED BY Zenon, <2>2, <3>5 DEF OpKept
    <2>5. ASSUME NEW c \in conns,
                 op' = [op EXCEPT !.pc = "secret", !.id = c.id, !.conns = @ \cup {c.id}]
          PROVE  OpKept
      <3>1. /\ IsRun(op') /\ op'.pc = "secret" /\ op'.snap = op.snap /\ op'.todo = op.todo
            /\ op'.cur = op.cur /\ op'.routes = op.routes /\ op'.ips = op.ips /\ op'.err = op.err
            /\ op'.conns = op.conns \cup {c.id} /\ op'.id = c.id
        BY Zenon, <2>1, <2>5 DEF IsRun, Fields
      <3>2. op.conns \subseteq IdsOf(conns) /\ c.id \in IdsOf(conns)
        BY Zenon, <2>1 DEF OpOK, Serves, IdsOf
      <3> QED BY Zenon, <2>1, <2>2, <3>1, <3>2, <1>LoopServes DEF OpKept
    <2>6. IsSingleton(Named(op.cur)) => First(Named(op.cur)) \in conns
      BY Zenon DEF IsSingleton, First, Named
    <2>7. \/ op' = Failed(op) \/ op' = [op EXCEPT !.pc = "create"]
          \/ /\ IsSingleton(Named(op.cur))
             /\ op' = [op EXCEPT !.pc = "secret", !.id = First(Named(op.cur)).id,
                                 !.conns = @ \cup {First(Named(op.cur)).id}]
      <3>1. IsSingleton({}) = FALSE
        BY Zenon DEF IsSingleton
      <3>2. CASE Named(op.cur) = {}
        BY Zenon, <3>1, <3>2 DEF ListConnectors
      <3>3. CASE Named(op.cur) # {} /\ IsSingleton(Named(op.cur))
        BY Zenon, <3>3 DEF ListConnectors
      <3>4. CASE Named(op.cur) # {} /\ ~IsSingleton(Named(op.cur))
        BY Zenon, <3>4 DEF ListConnectors
      <3> QED BY Zenon, <3>2, <3>3, <3>4
    <2> QED BY Zenon, <2>3, <2>4, <2>5, <2>6, <2>7

  \* EnsureConnector creates a connector: it is kept, or the node has failed.
  <1>CreateOp.
    ASSUME createConnector
    PROVE  OpKept
    <2> USE <1>CreateOp
    <2> DEFINE c == New(op.cur)
    <2>1. OpOK(op, conns, secret) /\ IsRun(op)
      BY Zenon, OpParts DEF TypeInv
    <2>2. op.pc = "create" /\ conns' = conns \cup {c} /\ secret' = secret /\ "create" \in Loop
          /\ \/ op' = Failed(op)
             \/ op' = [op EXCEPT !.pc = "secret", !.id = c.id, !.conns = @ \cup {c.id}]
      BY Zenon DEF createConnector, Loop
    <2> HIDE DEF c
    <2>3. IdsOf(conns) \subseteq IdsOf(conns') /\ c.id \in IdsOf(conns')
      BY Zenon, <2>2 DEF IdsOf
    <2>4. CASE op' = Failed(op)
      BY Zenon, <2>1, <2>2, <2>3, <2>4, <1>FailedServes DEF OpKept
    <2>5. CASE op' = [op EXCEPT !.pc = "secret", !.id = c.id, !.conns = @ \cup {c.id}]
      <3>1. /\ IsRun(op') /\ op'.pc = "secret" /\ op'.snap = op.snap /\ op'.todo = op.todo
            /\ op'.cur = op.cur /\ op'.routes = op.routes /\ op'.ips = op.ips /\ op'.err = op.err
            /\ op'.conns = op.conns \cup {c.id} /\ op'.id = c.id
        BY Zenon, <2>1, <2>5 DEF IsRun, Fields
      <3>2. op.conns \subseteq IdsOf(conns)
        BY Zenon, <2>1 DEF OpOK, Serves
      <3> QED BY Zenon, <2>1, <2>2, <2>3, <3>1, <3>2, <1>LoopServes DEF OpKept
    <2> QED BY Zenon, <2>2, <2>4, <2>5

  \* ensureBootstrapSecret: the Secret names the connector that is kept, and what the
  \* node has advertised is kept only when it agrees with it.
  <1>SecretOp.
    ASSUME ensureBootstrapSecret
    PROVE  OpKept
    <2> USE <1>SecretOp
    <2> DEFINE x == op.cur
               a == op.snap[x].ann
    <2>1. OpOK(op, conns, secret) /\ IsRun(op) /\ ListOK(op.snap) /\ Serves(op, conns, secret)
      BY Zenon, OpParts DEF TypeInv, OpOK
    <2>2. op.pc = "secret" /\ conns' = conns /\ "secret" \in Loop
          /\ \/ op' = Failed(op)
             \/ op' = Advertised(op) /\ secret' = [secret EXCEPT ![x] = Secret(op)]
      BY DEF ensureBootstrapSecret, Loop, cloud
    <2>3. x \in DOMAIN op.snap /\ x \in Nodes /\ op.id \in op.conns
      BY Zenon, <2>1, <2>2 DEF Serves, ListOK
    <2>4. CASE op' = Failed(op)
      BY Zenon, <2>1, <2>2, <2>4, <1>FailedServes DEF OpKept
    <2>5. CASE op' = Advertised(op) /\ secret' = [secret EXCEPT ![x] = Secret(op)]
      <3>1. secret'[x].conn = op.id /\ \A n \in Nodes : n # x => secret'[n] = secret[n]
        <4>1. secret'[x] = [conn |-> op.id, owner |-> op.snap[x].uid]
              /\ \A n \in Nodes : n # x => secret'[n] = secret[n]
          BY Zenon, <2>3, <2>5 DEF TypeInv, Secret
        <4>2. secret'[x].conn = op.id
          BY <4>1
        <4> QED BY Zenon, <4>1, <4>2
      <3>2. ASSUME NEW o, o.snap = op.snap, o.conns = op.conns, o.routes = op.routes, o.ips = op.ips,
                   NEW n \in DOMAIN op.snap \ (op.todo \cup {x})
            PROVE  op.err \/ Served(o, secret', n)
        <4>1. op.err \/ Served(op, secret, n)
          BY Zenon, <2>1, <2>2 DEF Serves
        <4>2. secret'[n] = secret[n]
          BY Zenon, <2>1, <3>1 DEF ListOK
        <4> QED BY Zenon, <3>2, <4>1, <4>2 DEF Served, SecretOf
      <3>3. SecretOf(op, secret', x)
        BY Zenon, <2>3, <3>1 DEF SecretOf
      <3>4. CASE a = None
        <4>1. op' = NextNode(op)
          BY Zenon, <2>5, <3>4 DEF Advertised
        <4>2. Served(op, secret', x)
          BY Zenon, <3>3, <3>4 DEF Served
        <4>3. \A n \in DOMAIN op.snap \ op.todo : op.err \/ Served(op, secret', n)
          BY Zenon, <3>2, <4>2
        <4>4. op.todo \subseteq DOMAIN op.snap /\ op.conns \subseteq IdsOf(conns')
          BY Zenon, <2>1, <2>2 DEF Serves
        <4> QED BY Zenon, <2>1, <4>1, <4>3, <4>4, <1>TurnServes DEF OpKept, OpOK
      <3>5. CASE a # None /\ a.conn # op.id
        <4>1. op' = Failed(op)
          BY Zenon, <2>5, <3>5 DEF Advertised
        <4> QED BY Zenon, <2>4, <4>1
      <3>6. CASE a # None /\ a.conn = op.id
        <4>1. op' = [op EXCEPT !.pc = "route", !.ips = @ \cup {<<x, a.ip>>}]
          BY Zenon, <2>5, <3>6 DEF Advertised
        <4> HIDE DEF a
        <4>2. /\ IsRun(op') /\ op'.pc = "route" /\ op'.snap = op.snap /\ op'.todo = op.todo
              /\ op'.cur = op.cur /\ op'.routes = op.routes /\ op'.ips = op.ips \cup {<<x, a.ip>>}
              /\ op'.err = op.err /\ op'.conns = op.conns /\ op'.id = op.id
          BY Zenon, <2>1, <4>1 DEF IsRun, Fields
        <4>3. "route" \in Loop /\ "route" \notin Stages /\ "route" # "idle"
              /\ "route" \notin {"delroutes", "delconns", "delregs"}
          BY DEF Loop, Stages
        <4>4. ASSUME NEW n \in DOMAIN op.snap \ (op.todo \cup {x})
              PROVE  op'.err \/ Served(op', secret', n)
          <5>1. op.err \/ Served(op, secret', n)
            BY Zenon, <3>2
          <5> QED BY Zenon, <4>2, <5>1 DEF Served, SecretOf
        <4>5. SecretOf(op', secret', x)
          BY Zenon, <3>3, <4>2 DEF SecretOf
        <4>6. Serves(op', conns', secret')
          BY Zenon, <2>1, <2>2, <2>3, <3>6, <4>2, <4>3, <4>4, <4>5 DEF Serves, a
        <4> QED BY Zenon, <2>1, <4>2, <4>3, <4>6 DEF OpKept, OpOK, Collects
      <3> QED BY Zenon, <3>4, <3>5, <3>6
    <2> QED BY Zenon, <2>2, <2>4, <2>5

  \* EnsureRoute: the route of the node is kept, and the node has been served.
  <1>RouteOp.
    ASSUME EnsureRoute
    PROVE  OpKept
    <2> USE <1>RouteOp
    <2> DEFINE x == op.cur
               r == Route(x, op.id)
               o == [op EXCEPT !.routes = @ \cup {r}]
    <2>1. OpOK(op, conns, secret) /\ IsRun(op) /\ ListOK(op.snap) /\ Serves(op, conns, secret)
      BY Zenon, OpParts DEF TypeInv, OpOK
    <2>2. op.pc = "route" /\ conns' = conns /\ secret' = secret /\ "route" \in Loop
          /\ (op' = Failed(op) \/ op' = NextNode(o))
      BY Zenon DEF EnsureRoute, Loop
    <2>3. CASE op' = Failed(op)
      BY Zenon, <2>1, <2>2, <2>3, <1>FailedServes DEF OpKept
    <2>4. CASE op' = NextNode(o)
      <3> HIDE DEF r
      <3>1. /\ IsRun(o) /\ o.snap = op.snap /\ o.todo = op.todo /\ o.ips = op.ips
            /\ o.err = op.err /\ o.conns = op.conns /\ o.routes = op.routes \cup {r}
        BY <2>1 DEF IsRun, Fields
      <3> HIDE DEF o
      <3>2. /\ x \in DOMAIN op.snap /\ op.id \in op.conns /\ SecretOf(op, secret, x)
            /\ op.snap[x].ann.conn = op.id /\ <<x, op.snap[x].ann.ip>> \in op.ips
            /\ op.todo \subseteq DOMAIN op.snap /\ op.conns \subseteq IdsOf(conns)
        BY Zenon, <2>1, <2>2 DEF Serves
      <3>3. Served(o, secret, x)
        BY Zenon, <3>1, <3>2 DEF Served, SecretOf, r
      <3>4. ASSUME NEW n \in DOMAIN o.snap \ o.todo PROVE o.err \/ Served(o, secret, n)
        <4>1. CASE n = x
          BY Zenon, <3>3, <4>1
        <4>2. CASE n # x
          <5>1. op.err \/ Served(op, secret, n)
            BY Zenon, <2>1, <2>2, <3>1, <4>2 DEF Serves
          <5> QED BY Zenon, <3>1, <5>1 DEF Served, SecretOf
        <4> QED BY Zenon, <4>1, <4>2
      <3>5. o.todo \subseteq DOMAIN o.snap /\ o.conns \subseteq IdsOf(conns) /\ ListOK(o.snap)
        BY Zenon, <2>1, <3>1, <3>2
      <3> QED BY Zenon, <2>2, <2>4, <3>1, <3>4, <3>5, <1>TurnServes DEF OpKept, OpOK
    <2> QED BY Zenon, <2>2, <2>3, <2>4

  \* A stage goes on with what it keeps unchanged.
  <1>StageOp.
    ASSUME op.pc \in Stages, secret' = secret, op.conns \subseteq IdsOf(conns'),
           op' = Idle \/ (op'.pc \in Stages /\ StageMoves(op', op) /\ Collects(op'))
    PROVE  OpKept /\ StageStep
    <2> USE <1>StageOp
    <2>1. CASE op' = Idle
      BY Zenon, <2>1, IdleOp DEF StageStep
    <2>2. CASE op'.pc \in Stages /\ StageMoves(op', op) /\ Collects(op')
      <3>1. OpOK(op, conns, secret)
        BY Zenon, OpParts
      <3>2. OpOK(op', conns', secret)
        BY Zenon, <2>2, <3>1, <1>StageServes DEF StageMoves
      <3> QED BY Zenon, <2>2, <3>2 DEF OpKept, StageStep, StageMoves
    <2> QED BY Zenon, <2>1, <2>2

  \* ensureCoreDNSNodeHosts keeps what the reconcile keeps.
  <1>NodeHostsOp.
    ASSUME ensureCoreDNSNodeHosts
    PROVE  OpKept /\ StageStep
    <2> USE <1>NodeHostsOp
    <2> DEFINE text == mergeManagedNodeHosts(hosts, op.ips)
    <2>1. /\ op.pc = "hosts" /\ conns' = conns /\ secret' = secret
          /\ (op' = Idle \/ op' = [op EXCEPT !.pc = "reload", !.text = text])
      BY DEF ensureCoreDNSNodeHosts, cloud
    <2> HIDE DEF text
    <2>2. IsRun(op) /\ op.conns \subseteq IdsOf(conns)
      BY Zenon, OpFacts
    <2>3. ASSUME op' = [op EXCEPT !.pc = "reload", !.text = text]
          PROVE  op'.pc = "reload" /\ StageMoves(op', op)
      BY Zenon, <2>2, <2>3 DEF IsRun, Fields, StageMoves
    <2>4. "hosts" \in Stages /\ "reload" \in Stages /\ "reload" \notin {"delroutes", "delconns", "delregs"}
      BY DEF Stages
    <2>5. op'.pc = "reload" => Collects(op')
      BY Zenon, <2>4 DEF Collects
    <2> QED BY Zenon, <2>1, <2>2, <2>3, <2>4, <2>5, <1>StageOp

  \* ensureCoreDNSReload keeps what the reconcile keeps.
  <1>ReloadOp.
    ASSUME ensureCoreDNSReload
    PROVE  OpKept /\ StageStep
    <2> USE <1>ReloadOp
    <2>1. /\ op.pc = "reload" /\ conns' = conns /\ secret' = secret
          /\ (op' = Idle \/ op' = [op EXCEPT !.pc = "gcroutes", !.text = <<>>])
      BY DEF ensureCoreDNSReload, cloud
    <2>2. IsRun(op) /\ op.conns \subseteq IdsOf(conns)
      BY Zenon, OpFacts
    <2>3. ASSUME op' = [op EXCEPT !.pc = "gcroutes", !.text = <<>>]
          PROVE  op'.pc = "gcroutes" /\ StageMoves(op', op)
      BY Zenon, <2>2, <2>3 DEF IsRun, Fields, StageMoves
    <2>4. "reload" \in Stages /\ "gcroutes" \in Stages
          /\ "gcroutes" \notin {"delroutes", "delconns", "delregs"}
      BY DEF Stages
    <2>5. op'.pc = "gcroutes" => Collects(op')
      BY Zenon, <2>4 DEF Collects
    <2> QED BY Zenon, <2>1, <2>2, <2>3, <2>4, <2>5, <1>StageOp

  \* After the last route the connectors follow, or the reconcile ends.
  <1>RoutesLeftFacts.
    ASSUME NEW o, IsRun(o), o.pc = "delroutes", Collects(o)
    PROVE  LET q == RoutesLeft(o)
           IN  q = Idle \/ (q.pc \in Stages /\ StageMoves(q, o) /\ Collects(q))
    <2> USE <1>RoutesLeftFacts
    <2> DEFINE q == [o EXCEPT !.pc = "gcconns"]
    <2>1. q.pc = "gcconns" /\ StageMoves(q, o)
      BY DEF IsRun, Fields, StageMoves
    <2>2. RoutesLeft(o) \in {o, Idle, q}
      BY Zenon DEF RoutesLeft
    <2> HIDE DEF q
    <2>3. "delroutes" \in Stages /\ "gcconns" \in Stages
          /\ "gcconns" \notin {"delroutes", "delconns", "delregs"}
      BY DEF Stages
    <2>4. Collects(q)
      BY Zenon, <2>1, <2>3 DEF Collects
    <2>5. StageMoves(o, o)
      BY Zenon DEF StageMoves
    <2> QED BY Zenon, <2>1, <2>2, <2>3, <2>4, <2>5

  \* collectGarbage picks routes that are not to be kept.
  <1>ListRoutesOp.
    ASSUME ListRoutes
    PROVE  OpKept /\ StageStep
    <2> USE <1>ListRoutesOp
    <2> DEFINE S == staleRoutes
               o == [op EXCEPT !.pc = "delroutes", !.gc = S]
    <2>1. /\ op.pc = "gcroutes" /\ conns' = conns /\ secret' = secret
          /\ (op' = Idle \/ op' = RoutesLeft(o))
      BY DEF ListRoutes, cloud
    <2>2. IsRun(op) /\ op.conns \subseteq IdsOf(conns) /\ \A r \in S : r \notin op.routes
      BY Zenon, OpFacts DEF staleRoutes
    <2> HIDE DEF S
    <2>3. o.pc = "delroutes" /\ o.gc = S /\ StageMoves(o, op)
      BY Zenon, <2>2 DEF IsRun, Fields, StageMoves
    <2> HIDE DEF o
    <2>4. "gcroutes" \in Stages /\ "delroutes" \notin {"delconns", "delregs"}
      BY DEF Stages
    <2>5. Collects(o)
      BY Zenon, <2>2, <2>3, <2>4 DEF Collects, StageMoves
    <2>6. op' = Idle \/ (op'.pc \in Stages /\ StageMoves(op', o) /\ Collects(op'))
      BY ZenonT(40), <2>1, <2>3, <2>5, <1>RoutesLeftFacts DEF StageMoves
    <2>7. op' = Idle \/ (op'.pc \in Stages /\ StageMoves(op', op) /\ Collects(op'))
      BY Zenon, <2>3, <2>6 DEF StageMoves
    <2> QED BY Zenon, <2>1, <2>2, <2>4, <2>7, <1>StageOp

  \* DeleteRoute takes one of them, or fails.
  <1>DeleteRouteOp.
    ASSUME DeleteRoute
    PROVE  OpKept /\ StageStep /\ op.pc = "delroutes" /\ conns' = conns /\ regs' = regs
           /\ \A r \in routes : r \notin routes' => r \notin op.routes
    <2> USE <1>DeleteRouteOp
    <2> DEFINE r == First(op.gc)
               o == [op EXCEPT !.gc = @ \ {r}]
               u == [op EXCEPT !.gc = @ \ {r}, !.err = TRUE]
    <2>1. /\ op.pc = "delroutes" /\ conns' = conns /\ secret' = secret /\ op.gc # {} /\ regs' = regs
          /\ (op' = RoutesLeft(o) \/ op' = RoutesLeft(u))
          /\ (routes' = routes \/ routes' = routes \ {r})
      BY DEF DeleteRoute
    <2>2. IsRun(op) /\ op.conns \subseteq IdsOf(conns) /\ Collects(op)
      BY Zenon, OpFacts
    <2>3. r \in op.gc
      BY Zenon, <2>1 DEF First
    <2> HIDE DEF r
    <2>4. /\ o.pc = "delroutes" /\ o.gc \subseteq op.gc /\ StageMoves(o, op)
          /\ u.pc = "delroutes" /\ u.gc \subseteq op.gc /\ StageMoves(u, op)
      BY Zenon, <2>1, <2>2 DEF IsRun, Fields, StageMoves
    <2> HIDE DEF o, u
    <2>5. "delroutes" \in Stages /\ "delroutes" \notin {"delconns", "delregs"}
      BY DEF Stages
    <2>6. Collects(o) /\ Collects(u)
      BY Zenon, <2>1, <2>2, <2>4, <2>5 DEF Collects, StageMoves
    <2>7. \/ op' = Idle
          \/ (op'.pc \in Stages /\ StageMoves(op', o) /\ Collects(op'))
          \/ (op'.pc \in Stages /\ StageMoves(op', u) /\ Collects(op'))
      <3>1. IsRun(o) /\ IsRun(u)
        BY Zenon, <2>4 DEF StageMoves
      <3>2. CASE op' = RoutesLeft(o)
        BY Zenon, <2>4, <2>6, <3>1, <3>2, <1>RoutesLeftFacts
      <3>3. CASE op' = RoutesLeft(u)
        BY Zenon, <2>4, <2>6, <3>1, <3>3, <1>RoutesLeftFacts
      <3> QED BY Zenon, <2>1, <3>2, <3>3
    <2>8. op' = Idle \/ (op'.pc \in Stages /\ StageMoves(op', op) /\ Collects(op'))
      BY Zenon, <2>4, <2>7 DEF StageMoves
    <2>9. OpKept /\ StageStep
      BY Zenon, <2>1, <2>2, <2>5, <2>8, <1>StageOp
    <2>10. r \notin op.routes
      BY Zenon, <2>1, <2>2, <2>3 DEF Collects
    <2> QED BY Zenon, <2>1, <2>9, <2>10

  \* collectGarbage picks connectors that are not to be kept.
  <1>ListStaleOp.
    ASSUME ListStaleConnectors
    PROVE  OpKept /\ StageStep
    <2> USE <1>ListStaleOp
    <2> DEFINE S == staleConnectors
    <2>1. /\ op.pc = "gcconns" /\ conns' = conns /\ secret' = secret
          /\ (op' = Idle \/ op' = [op EXCEPT !.pc = "delconns", !.gc = S])
      BY DEF ListStaleConnectors, cloud
    <2>2. IsRun(op) /\ op.conns \subseteq IdsOf(conns)
      BY Zenon, OpFacts
    <2>3. \A c \in S : c.id \notin op.conns /\ Owned(c.name)
      BY Zenon DEF staleConnectors
    <2> HIDE DEF S
    <2>4. ASSUME op' = [op EXCEPT !.pc = "delconns", !.gc = S]
          PROVE  op'.pc = "delconns" /\ op'.gc = S /\ StageMoves(op', op)
      BY Zenon, <2>2, <2>4 DEF IsRun, Fields, StageMoves
    <2>5. "gcconns" \in Stages /\ "delconns" \in Stages /\ "delconns" \notin {"delroutes", "delregs"}
      BY DEF Stages
    <2>6. op' = [op EXCEPT !.pc = "delconns", !.gc = S] => Collects(op')
      BY Zenon, <2>3, <2>4, <2>5 DEF Collects, StageMoves
    <2> QED BY Zenon, <2>1, <2>2, <2>4, <2>5, <2>6, <1>StageOp

  \* DeleteConnector takes one of them; the connectors that are kept stay.
  <1>DeleteConnectorOp.
    ASSUME DeleteConnector
    PROVE  OpKept /\ StageStep /\ op.pc = "delconns" /\ routes' = routes /\ regs' = regs
           /\ \A c \in conns : c \notin conns' => c.id \notin op.conns /\ Owned(c.name)
    <2> USE <1>DeleteConnectorOp
    <2> DEFINE c == First(op.gc)
    <2>1. /\ op.pc = "delconns" /\ secret' = secret /\ op.gc # {} /\ routes' = routes /\ regs' = regs
          /\ op' = [op EXCEPT !.gc = @ \ {c}] /\ (conns' = conns \/ conns' = conns \ {c})
      BY DEF DeleteConnector
    <2>2. IsRun(op) /\ op.conns \subseteq IdsOf(conns) /\ Collects(op)
      BY Zenon, OpFacts
    <2>3. c \in op.gc
      BY Zenon, <2>1 DEF First
    <2> HIDE DEF c
    <2>4. op'.pc = "delconns" /\ op'.gc \subseteq op.gc /\ StageMoves(op', op)
      BY <2>1, <2>2 DEF IsRun, Fields, StageMoves
    <2>5. "delconns" \in Stages /\ "delconns" \notin {"delroutes", "delregs"}
      BY DEF Stages
    <2>6. c.id \notin op.conns /\ Owned(c.name) /\ Collects(op')
      BY Zenon, <2>1, <2>2, <2>3, <2>4, <2>5 DEF Collects, StageMoves
    <2>7. op.conns \subseteq IdsOf(conns')
      BY Zenon, <2>1, <2>2, <2>6 DEF IdsOf
    <2>8. OpKept /\ StageStep
      BY Zenon, <2>1, <2>4, <2>5, <2>6, <2>7, <1>StageOp
    <2> QED BY Zenon, <2>1, <2>6, <2>8

  \* collectRegistrations picks old registrations whose Mesh IP no listed node has.
  <1>SweepOp.
    ASSUME collectRegistrations
    PROVE  OpKept /\ StageStep
    <2> USE <1>SweepOp
    <2> DEFINE S == orphanRegistrations
               o == [op EXCEPT !.pc = "delregs", !.gc = S]
    <2>1. /\ op.pc = "delconns" /\ conns' = conns /\ secret' = secret
          /\ (op' = Idle \/ op' = RegistrationsLeft(o))
      BY DEF collectRegistrations, cloud, kube
    <2>2. IsRun(op) /\ op.conns \subseteq IdsOf(conns)
      BY Zenon, OpFacts
    <2>3. \A g \in S : g.old /\ Owned(g.name) /\ \A p \in op.ips : p[2] # g.ip
      BY Zenon DEF orphanRegistrations
    <2> HIDE DEF S
    <2>4. o.pc = "delregs" /\ o.gc = S /\ StageMoves(o, op)
      BY Zenon, <2>2 DEF IsRun, Fields, StageMoves
    <2>5. op' = Idle \/ op' = o
      BY Zenon, <2>1 DEF RegistrationsLeft
    <2> HIDE DEF o
    <2>6. "delconns" \in Stages /\ "delregs" \in Stages /\ "delregs" \notin {"delroutes", "delconns"}
      BY DEF Stages
    <2>7. Collects(o)
      BY Zenon, <2>3, <2>4, <2>6 DEF Collects, StageMoves
    <2> QED BY Zenon, <2>1, <2>2, <2>4, <2>5, <2>6, <2>7, <1>StageOp

  \* DeleteDeviceRegistration takes one of them.
  <1>DeleteRegistrationOp.
    ASSUME DeleteDeviceRegistration
    PROVE  OpKept /\ StageStep /\ op.pc = "delregs" /\ routes' = routes /\ conns' = conns
           /\ \A r \in regs : r \notin regs' =>
                r.old /\ Owned(r.name) /\ \A p \in op.ips : p[2] # r.ip
    <2> USE <1>DeleteRegistrationOp
    <2> DEFINE r == First(op.gc)
               o == [op EXCEPT !.gc = @ \ {r}]
    <2>1. /\ op.pc = "delregs" /\ secret' = secret /\ op.gc # {} /\ routes' = routes /\ conns' = conns
          /\ op' = RegistrationsLeft(o) /\ (regs' = regs \/ regs' = regs \ {r})
      BY DEF DeleteDeviceRegistration
    <2>2. IsRun(op) /\ op.conns \subseteq IdsOf(conns) /\ Collects(op)
      BY Zenon, OpFacts
    <2>3. r \in op.gc
      BY Zenon, <2>1 DEF First
    <2> HIDE DEF r
    <2>4. o.pc = "delregs" /\ o.gc \subseteq op.gc /\ StageMoves(o, op)
      BY <2>1, <2>2 DEF IsRun, Fields, StageMoves
    <2>5. op' = Idle \/ op' = o
      BY Zenon, <2>1 DEF RegistrationsLeft
    <2> HIDE DEF o
    <2>6. "delregs" \in Stages /\ "delregs" \notin {"delroutes", "delconns"}
      BY DEF Stages
    <2>7. r.old /\ Owned(r.name) /\ (\A p \in op.ips : p[2] # r.ip) /\ Collects(o)
      BY Zenon, <2>1, <2>2, <2>3, <2>4, <2>6 DEF Collects, StageMoves
    <2>8. OpKept /\ StageStep
      BY Zenon, <2>1, <2>2, <2>4, <2>5, <2>6, <2>7, <1>StageOp
    <2> QED BY Zenon, <2>1, <2>7, <2>8

  <1>1. AtNodes => OpKept
    BY Zenon, <1>ListNodesOp, <1>ListConnectorsOp, <1>CreateOp, <1>SecretOp, <1>RouteOp DEF AtNodes
  <1>2. Listings => OpKept /\ StageStep
    BY Zenon, <1>NodeHostsOp, <1>ReloadOp, <1>ListRoutesOp, <1>ListStaleOp, <1>SweepOp DEF Listings
  <1> QED BY Zenon, <1>1, <1>2, <1>DeleteRouteOp, <1>DeleteConnectorOp, <1>DeleteRegistrationOp
          DEF Deletions, TakesRoutes, TakesConnectors, TakesRegistrations

-----------------------------------------------------------------------------
(* What a step of the operator may change.                                 *)

Counts(c) == c \in [conns : Nat, regs : Nat, faults : Nat] /\ c.conns <= MaxIds /\ c.regs <= MaxIds

\* Connectors go, or one with a new id comes.
Ages(cs, c, ds, d) ==
  \/ ds \subseteq cs /\ c.conns <= d.conns
  \/ \E m : /\ ds = cs \cup {[id |-> c.conns + 1, name |-> ConnectorName(Cluster, m)]}
            /\ d.conns = c.conns + 1 /\ d.conns <= MaxIds

Busy == {"create", "secret", "route"}

\* The annotations of the list are those of the last one, or of the nodes.
SnapFrom ==
  \A n \in DOMAIN op'.snap :
    (n \in DOMAIN op.snap /\ op'.snap[n] = op.snap[n]) \/ op'.snap[n].ann = ann[n]

OpFrame ==
  /\ up' = up /\ ann' = ann /\ fl' = fl /\ file' = file /\ regs' \subseteq regs
  /\ Counts(count') /\ count'.regs = count.regs /\ Ages(conns, count, conns', count')
  /\ SnapFrom

\* The stages: nothing that names a node's connector changes.
StageFrame == OpFrame /\ secret' = secret /\ op'.pc \notin Busy

\* What EnsureConnector and ensureBootstrapSecret come to.
Finds ==
  /\ OpFrame /\ secret' = secret /\ conns' = conns
  /\ \/ op'.pc \notin Busy
     \/ op'.pc = "create" /\ Named(op.cur) = {} /\ op'.cur = op.cur
     \/ op'.pc = "secret" /\ op'.cur = op.cur /\ \E c : Named(op.cur) = {c} /\ op'.id = c.id
Creates ==
  /\ OpFrame /\ secret' = secret /\ op.pc = "create" /\ count.conns < MaxIds
  /\ count'.conns = count.conns + 1 /\ conns' = conns \cup {New(op.cur)}
  /\ \/ op'.pc \notin Busy
     \/ op'.pc = "secret" /\ op'.cur = op.cur /\ op'.id = count.conns + 1
Writes ==
  /\ OpFrame /\ op.pc = "secret" /\ conns' = conns
  /\ secret' \in {secret, [secret EXCEPT ![op.cur] = Secret(op)]}
  /\ (op'.pc \notin Busy \/ (op'.pc = "route" /\ op'.cur = op.cur /\ op'.id = op.id))

\* The counters.
LEMMA CountFacts ==
  ASSUME TypeInv
  PROVE  /\ Counts(count)
         /\ (UNCHANGED count \/ Bump("faults")) =>
              Counts(count') /\ count'.regs = count.regs /\ count'.conns = count.conns
         /\ count.conns < MaxIds
              /\ (Bump("conns") \/ count' = [count EXCEPT !.conns = @ + 1, !.faults = @ + 1]) =>
              Counts(count') /\ count'.regs = count.regs /\ count'.conns = count.conns + 1
         /\ count.regs < MaxIds
              /\ (Bump("regs") \/ count' = [count EXCEPT !.regs = @ + 1, !.faults = @ + 1]) =>
              Counts(count') /\ count'.regs = count.regs + 1 /\ count'.conns = count.conns
  <1>1. Counts(count) /\ MaxIds \in Nat
    BY Zenon, MeshOperatorAssumption DEF TypeInv, Counts
  <1>2. UNCHANGED count => Counts(count') /\ count'.regs = count.regs /\ count'.conns = count.conns
    BY Zenon, <1>1
  <1>3. Bump("faults") => Counts(count') /\ count'.regs = count.regs /\ count'.conns = count.conns
    BY <1>1 DEF Bump, Counts
  <1>4. count.conns < MaxIds /\ Bump("conns") =>
          Counts(count') /\ count'.regs = count.regs /\ count'.conns = count.conns + 1
    BY <1>1 DEF Bump, Counts
  <1>5. count.conns < MaxIds /\ count' = [count EXCEPT !.conns = @ + 1, !.faults = @ + 1] =>
          Counts(count') /\ count'.regs = count.regs /\ count'.conns = count.conns + 1
    <2> DEFINE c == [count EXCEPT !.conns = @ + 1]
    <2>1. count.conns < MaxIds => Counts(c) /\ c.regs = count.regs /\ c.conns = count.conns + 1
      BY <1>1 DEF Counts
    <2>2. count' = [count EXCEPT !.conns = @ + 1, !.faults = @ + 1] => count' = [c EXCEPT !.faults = @ + 1]
      BY <1>1 DEF Counts
    <2> HIDE DEF c
    <2>3. Counts(c) => LET d == [c EXCEPT !.faults = @ + 1]
                       IN  Counts(d) /\ d.regs = c.regs /\ d.conns = c.conns
      BY DEF Counts
    <2> QED BY Zenon, <2>1, <2>2, <2>3
  <1>6. count.regs < MaxIds /\ Bump("regs") =>
          Counts(count') /\ count'.regs = count.regs + 1 /\ count'.conns = count.conns
    BY <1>1 DEF Bump, Counts
  <1>7. count.regs < MaxIds /\ count' = [count EXCEPT !.regs = @ + 1, !.faults = @ + 1] =>
          Counts(count') /\ count'.regs = count.regs + 1 /\ count'.conns = count.conns
    <2> DEFINE c == [count EXCEPT !.regs = @ + 1]
    <2>1. count.regs < MaxIds => Counts(c) /\ c.regs = count.regs + 1 /\ c.conns = count.conns
      BY <1>1 DEF Counts
    <2>2. count' = [count EXCEPT !.regs = @ + 1, !.faults = @ + 1] => count' = [c EXCEPT !.faults = @ + 1]
      BY <1>1 DEF Counts
    <2> HIDE DEF c
    <2>3. Counts(c) => LET d == [c EXCEPT !.faults = @ + 1]
                       IN  Counts(d) /\ d.regs = c.regs /\ d.conns = c.conns
      BY DEF Counts
    <2> QED BY Zenon, <2>1, <2>2, <2>3
  <1> QED BY Zenon, <1>1, <1>2, <1>3, <1>4, <1>5, <1>6, <1>7

\* Deleting connectors, or leaving them alone.
LEMMA AgesSame ==
  ASSUME TypeInv, conns' \subseteq conns, count'.conns = count.conns
  PROVE  Ages(conns, count, conns', count')
  <1>1. count.conns <= count'.conns
    BY DEF TypeInv
  <1> QED BY Zenon, <1>1 DEF Ages

\* What each step of the operator leaves alone, and where it goes.
LEMMA OpFrames ==
  ASSUME TypeInv, OpInv
  PROVE  /\ ListNodes => OpFrame /\ op'.pc \notin Busy
         /\ ListConnectors => Finds
         /\ createConnector => Creates
         /\ ensureBootstrapSecret => Writes
         /\ EnsureRoute => StageFrame /\ routes \subseteq routes' /\ conns' = conns /\ regs' = regs
         /\ Listings => StageFrame /\ UNCHANGED cloud
         /\ Deletions => StageFrame
         /\ OperatorCrash => OpKept /\ StageFrame /\ UNCHANGED cloud
  \* Going to the next node keeps the list, or ends the reconcile.
  <1>NextNodeSnap.
    ASSUME NEW o, IsRun(o)
    PROVE  LET q == NextNode(o) IN q.pc \notin Busy /\ (q.snap = o.snap \/ DOMAIN q.snap = {})
    <2> USE <1>NextNodeSnap
    <2>1. "idle" \notin Busy /\ "connector" \notin Busy /\ "hosts" \notin Busy
      BY DEF Busy
    <2> QED BY Zenon, <2>1, NextNodeFacts, IdleFacts DEF Turns, Keeps

  \* A node that fails leaves the list as it is.
  <1>FailedSnap.
    ASSUME NEW o, IsRun(o)
    PROVE  LET q == Failed(o) IN q.pc \notin Busy /\ (q.snap = o.snap \/ DOMAIN q.snap = {})
    <2> USE <1>FailedSnap
    <2> DEFINE u == [o EXCEPT !.err = TRUE]
    <2>1. IsRun(u) /\ u.snap = o.snap
      BY Zenon DEF IsRun, Fields
    <2>2. Failed(o) = NextNode(u)
      BY Zenon DEF Failed
    <2> HIDE DEF u
    <2> QED BY Zenon, <2>1, <2>2, <1>NextNodeSnap

  \* The list is kept or dropped.
  <1>SnapSame.
    (op'.snap = op.snap \/ DOMAIN op'.snap = {}) => SnapFrom
    BY Zenon DEF SnapFrom

  \* Steps that are no creation.
  <1>QuietFrame.
    ASSUME UNCHANGED <<up, ann, node>>, regs' \subseteq regs, conns' \subseteq conns,
           UNCHANGED count \/ Bump("faults"), SnapFrom
    PROVE  OpFrame
    <2> USE <1>QuietFrame
    <2>1. up' = up /\ ann' = ann /\ fl' = fl /\ file' = file
      BY DEF node
    <2> QED BY Zenon, <2>1, CountFacts, AgesSame DEF OpFrame

  \* reconcile reads the annotations of the nodes.
  <1>ListNodesFrame.
    ASSUME ListNodes
    PROVE  OpFrame /\ op'.pc \notin Busy
    <2> USE <1>ListNodesFrame
    <2> DEFINE S == [n \in Live |-> [uid |-> up[n], ann |-> ann[n]]]
               o == [Idle EXCEPT !.snap = S, !.todo = Live]
    <2>1. /\ op' = NextNode(o) /\ UNCHANGED <<up, ann, node>> /\ regs' = regs /\ conns' = conns
          /\ UNCHANGED count
      BY DEF ListNodes, FrameOp, cloud
    <2>2. \A n \in DOMAIN S : S[n].ann = ann[n]
      OBVIOUS
    <2> HIDE DEF S
    <2>3. IsRun(o) /\ o.snap = S
      BY Zenon DEF IsRun, Fields, Idle
    <2> HIDE DEF o
    <2>4. op'.pc \notin Busy /\ (op'.snap = S \/ DOMAIN op'.snap = {})
      BY Zenon, <2>1, <2>3, <1>NextNodeSnap
    <2>5. SnapFrom
      BY Zenon, <2>2, <2>4 DEF SnapFrom
    <2> QED BY Zenon, <2>1, <2>4, <2>5, <1>QuietFrame

  \* The part of the other steps: what is left alone, and where the reconcile goes.
  <1>ListConnectorsFrame.
    ASSUME ListConnectors
    PROVE  /\ OpFrame /\ secret' = secret /\ conns' = conns
           /\ \/ op'.pc \notin Busy
              \/ op'.pc = "create" /\ Named(op.cur) = {} /\ op'.cur = op.cur
              \/ op'.pc = "secret" /\ op'.cur = op.cur /\ \E c : Named(op.cur) = {c} /\ op'.id = c.id
    <2> USE <1>ListConnectorsFrame
    <2> DEFINE S == Named(op.cur)
    <2>1. /\ UNCHANGED <<up, ann, node>> /\ regs' = regs /\ conns' = conns
          /\ (UNCHANGED count \/ Bump("faults")) /\ secret' = secret
      BY DEF ListConnectors, FrameOp, cloud
    <2>2. \/ op' = Failed(op) \/ (S = {} /\ op' = [op EXCEPT !.pc = "create"])
          \/ /\ IsSingleton(S)
             /\ op' = [op EXCEPT !.pc = "secret", !.id = First(S).id, !.conns = @ \cup {First(S).id}]
      <3>1. IsSingleton({}) = FALSE
        BY Zenon DEF IsSingleton
      <3>2. CASE S = {}
        BY Zenon, <3>1, <3>2 DEF ListConnectors
      <3>3. CASE S # {} /\ IsSingleton(S)
        BY Zenon, <3>3 DEF ListConnectors
      <3>4. CASE S # {} /\ ~IsSingleton(S)
        BY Zenon, <3>4 DEF ListConnectors
      <3> QED BY Zenon, <3>2, <3>3, <3>4
    <2>3. IsRun(op)
      BY Zenon DEF TypeInv
    <2> HIDE DEF S
    <2>4. CASE op' = Failed(op)
      BY Zenon, <2>1, <2>3, <2>4, <1>FailedSnap, <1>SnapSame, <1>QuietFrame
    <2>5. CASE S = {} /\ op' = [op EXCEPT !.pc = "create"]
      <3>1. op'.pc = "create" /\ op'.cur = op.cur /\ op'.snap = op.snap
        BY <2>3, <2>5 DEF IsRun, Fields
      <3> QED BY Zenon, <2>1, <2>5, <3>1, <1>SnapSame, <1>QuietFrame DEF S
    <2>6. ASSUME IsSingleton(S),
                 op' = [op EXCEPT !.pc = "secret", !.id = First(S).id, !.conns = @ \cup {First(S).id}]
          PROVE  OpFrame /\ op'.pc = "secret" /\ op'.cur = op.cur /\ \E c : S = {c} /\ op'.id = c.id
      <3> DEFINE c == First(S)
      <3>1. S = {c}
        BY Zenon, <2>6 DEF IsSingleton, First
      <3>2. op' = [op EXCEPT !.pc = "secret", !.id = c.id, !.conns = @ \cup {c.id}]
        BY Zenon, <2>6
      <3> HIDE DEF c
      <3>3. op'.pc = "secret" /\ op'.cur = op.cur /\ op'.snap = op.snap /\ op'.id = c.id
        BY <2>3, <3>2 DEF IsRun, Fields
      <3> QED BY Zenon, <2>1, <3>1, <3>3, <1>SnapSame, <1>QuietFrame
    <2> QED BY Zenon, <2>1, <2>2, <2>4, <2>5, <2>6 DEF S

  \* createConnector adds one connector, with a new id.
  <1>CreateFrame.
    ASSUME createConnector
    PROVE  /\ OpFrame /\ secret' = secret /\ op.pc = "create" /\ count.conns < MaxIds
           /\ count'.conns = count.conns + 1 /\ conns' = conns \cup {New(op.cur)}
           /\ \/ op'.pc \notin Busy
              \/ op'.pc = "secret" /\ op'.cur = op.cur /\ op'.id = count.conns + 1
    <2> USE <1>CreateFrame
    <2> DEFINE i == count.conns + 1
               d == New(op.cur)
    <2>1. /\ up' = up /\ ann' = ann /\ fl' = fl /\ file' = file /\ regs' = regs /\ secret' = secret
          /\ op.pc = "create" /\ count.conns < MaxIds /\ conns' = conns \cup {d}
          /\ (Bump("conns") \/ count' = [count EXCEPT !.conns = @ + 1, !.faults = @ + 1])
      BY DEF createConnector, FrameOp, node
    <2>2. op' = Failed(op) \/ op' = [op EXCEPT !.pc = "secret", !.id = d.id, !.conns = @ \cup {d.id}]
      BY Zenon DEF createConnector
    <2>3. d = [id |-> i, name |-> ConnectorName(Cluster, op.cur)] /\ d.id = i
      BY DEF New
    <2>4. Counts(count') /\ count'.regs = count.regs /\ count'.conns = i
      BY Zenon, <2>1, CountFacts
    <2> HIDE DEF d, i
    <2>5. count'.conns <= MaxIds
      BY Zenon, <2>4 DEF Counts
    <2>6. Ages(conns, count, conns', count')
      BY Zenon, <2>1, <2>3, <2>4, <2>5 DEF Ages, i
    <2>7. IsRun(op)
      BY Zenon DEF TypeInv
    <2>8. ASSUME op' = [op EXCEPT !.pc = "secret", !.id = d.id, !.conns = @ \cup {d.id}]
          PROVE  op'.pc = "secret" /\ op'.cur = op.cur /\ op'.snap = op.snap /\ op'.id = d.id
      BY <2>7, <2>8 DEF IsRun, Fields
    <2>9. op' = Failed(op) => op'.pc \notin Busy /\ (op'.snap = op.snap \/ DOMAIN op'.snap = {})
      BY Zenon, <2>7, <1>FailedSnap
    <2>10. SnapFrom
      BY Zenon, <2>2, <2>8, <2>9, <1>SnapSame
    <2>11. OpFrame
      BY Zenon, <2>1, <2>4, <2>6, <2>10 DEF OpFrame
    <2> QED BY Zenon, <2>1, <2>2, <2>3, <2>4, <2>8, <2>9, <2>11 DEF d, i

  \* ensureBootstrapSecret writes the Secret of the current node only.
  <1>SecretFrame.
    ASSUME ensureBootstrapSecret
    PROVE  /\ OpFrame /\ op.pc = "secret" /\ conns' = conns
           /\ secret' \in {secret, [secret EXCEPT ![op.cur] = Secret(op)]}
           /\ (op'.pc \notin Busy \/ (op'.pc = "route" /\ op'.cur = op.cur /\ op'.id = op.id))
    <2> USE <1>SecretFrame
    <2> DEFINE a == op.snap[op.cur].ann
    <2>1. /\ UNCHANGED <<up, ann, node>> /\ regs' = regs /\ conns' = conns
          /\ (UNCHANGED count \/ Bump("faults")) /\ op.pc = "secret"
          /\ secret' \in {secret, [secret EXCEPT ![op.cur] = Secret(op)]}
          /\ (op' = Failed(op) \/ op' = Advertised(op))
      BY DEF ensureBootstrapSecret, FrameOp, cloud
    <2>2. \/ op' = Failed(op) \/ op' = NextNode(op)
          \/ op' = [op EXCEPT !.pc = "route", !.ips = @ \cup {<<op.cur, a.ip>>}]
      BY Zenon, <2>1 DEF Advertised
    <2>3. IsRun(op)
      BY Zenon DEF TypeInv
    <2> HIDE DEF a
    <2>4. ASSUME op' = [op EXCEPT !.pc = "route", !.ips = @ \cup {<<op.cur, a.ip>>}]
          PROVE  op'.pc = "route" /\ op'.cur = op.cur /\ op'.id = op.id /\ op'.snap = op.snap
      BY <2>3, <2>4 DEF IsRun, Fields
    <2>5. op' = Failed(op) => op'.pc \notin Busy /\ (op'.snap = op.snap \/ DOMAIN op'.snap = {})
      BY Zenon, <2>3, <1>FailedSnap
    <2>6. op' = NextNode(op) => op'.pc \notin Busy /\ (op'.snap = op.snap \/ DOMAIN op'.snap = {})
      BY Zenon, <2>3, <1>NextNodeSnap
    <2>7. SnapFrom
      BY Zenon, <2>2, <2>4, <2>5, <2>6, <1>SnapSame
    <2>8. OpFrame
      BY Zenon, <2>1, <2>7, <1>QuietFrame
    <2> QED BY Zenon, <2>1, <2>2, <2>4, <2>5, <2>6, <2>8

  \* A stage changes nothing but what it deletes.
  <1>StageSnap.
    ASSUME StageStep, UNCHANGED <<up, ann, secret, node>>, regs' \subseteq regs,
           conns' \subseteq conns, UNCHANGED count \/ Bump("faults")
    PROVE  StageFrame
    <2> USE <1>StageSnap
    <2>1. \A s \in Stages : s \notin Busy
      BY DEF Stages, Busy
    <2>2. "idle" \notin Busy
      BY DEF Busy
    <2>3. op'.pc \notin Busy /\ SnapFrom
      BY Zenon, <2>1, <2>2, <1>SnapSame, IdleFacts DEF StageStep
    <2>4. secret' = secret /\ UNCHANGED <<up, ann, node>>
      OBVIOUS
    <2> QED BY Zenon, <2>3, <2>4, <1>QuietFrame DEF StageFrame

  \* EnsureRoute deletes nothing.
  <1>RouteFrame.
    ASSUME EnsureRoute
    PROVE  StageFrame /\ routes \subseteq routes' /\ conns' = conns /\ regs' = regs
    <2> USE <1>RouteFrame
    <2> DEFINE r == Route(op.cur, op.id)
               o == [op EXCEPT !.routes = @ \cup {r}]
    <2>1. /\ UNCHANGED <<up, ann, node>> /\ regs' = regs /\ conns' = conns /\ secret' = secret
          /\ routes' = routes \cup {r} /\ (UNCHANGED count \/ Bump("faults"))
          /\ (op' = Failed(op) \/ op' = NextNode(o))
      BY DEF EnsureRoute, FrameOp
    <2>2. IsRun(op)
      BY Zenon DEF TypeInv
    <2> HIDE DEF r
    <2>3. IsRun(o) /\ o.snap = op.snap
      BY <2>2 DEF IsRun, Fields
    <2> HIDE DEF o
    <2>4. op'.pc \notin Busy /\ (op'.snap = op.snap \/ DOMAIN op'.snap = {})
      BY Zenon, <2>1, <2>2, <2>3, <1>FailedSnap, <1>NextNodeSnap
    <2> QED BY Zenon, <2>1, <2>4, <1>SnapSame, <1>QuietFrame DEF StageFrame

  \* ensureCoreDNSNodeHosts leaves Cloudflare alone.
  <1>NodeHostsFrame.
    ASSUME ensureCoreDNSNodeHosts
    PROVE  StageFrame /\ UNCHANGED cloud
    <2> USE <1>NodeHostsFrame
    <2>1. /\ UNCHANGED <<up, ann, secret, node>> /\ regs' = regs /\ conns' = conns /\ UNCHANGED cloud
          /\ (UNCHANGED count \/ Bump("faults"))
      BY DEF ensureCoreDNSNodeHosts, FrameOp, cloud
    <2> QED BY Zenon, <2>1, OpSteps, <1>StageSnap DEF Listings

  \* So does ensureCoreDNSReload,
  <1>ReloadFrame.
    ASSUME ensureCoreDNSReload
    PROVE  StageFrame /\ UNCHANGED cloud
    <2> USE <1>ReloadFrame
    <2>1. /\ UNCHANGED <<up, ann, secret, node>> /\ regs' = regs /\ conns' = conns /\ UNCHANGED cloud
          /\ (UNCHANGED count \/ Bump("faults"))
      BY DEF ensureCoreDNSReload, FrameOp, cloud
    <2> QED BY Zenon, <2>1, OpSteps, <1>StageSnap DEF Listings

  \* and listing the routes.
  <1>ListRoutesFrame.
    ASSUME ListRoutes
    PROVE  StageFrame /\ UNCHANGED cloud
    <2> USE <1>ListRoutesFrame
    <2>1. /\ UNCHANGED <<up, ann, secret, node>> /\ regs' = regs /\ conns' = conns /\ UNCHANGED cloud
          /\ (UNCHANGED count \/ Bump("faults"))
      BY DEF ListRoutes, FrameOp, cloud
    <2> QED BY Zenon, <2>1, OpSteps, <1>StageSnap DEF Listings

  \* DeleteRoute changes routes only.
  <1>DeleteRouteFrame.
    ASSUME DeleteRoute
    PROVE  StageFrame
    <2> USE <1>DeleteRouteFrame
    <2>1. /\ UNCHANGED <<up, ann, secret, node>> /\ regs' = regs /\ conns' = conns
          /\ (UNCHANGED count \/ Bump("faults"))
      BY DEF DeleteRoute, FrameOp
    <2> QED BY Zenon, <2>1, OpSteps, <1>StageSnap DEF Deletions

  \* Listing the connectors leaves Cloudflare alone.
  <1>ListStaleFrame.
    ASSUME ListStaleConnectors
    PROVE  StageFrame /\ UNCHANGED cloud
    <2> USE <1>ListStaleFrame
    <2>1. /\ UNCHANGED <<up, ann, secret, node>> /\ regs' = regs /\ conns' = conns /\ UNCHANGED cloud
          /\ (UNCHANGED count \/ Bump("faults"))
      BY DEF ListStaleConnectors, FrameOp, cloud
    <2> QED BY Zenon, <2>1, OpSteps, <1>StageSnap DEF Listings

  \* DeleteConnector makes no connector.
  <1>DeleteConnectorFrame.
    ASSUME DeleteConnector
    PROVE  StageFrame
    <2> USE <1>DeleteConnectorFrame
    <2>1. /\ UNCHANGED <<up, ann, secret, node>> /\ regs' = regs /\ conns' \subseteq conns
          /\ (UNCHANGED count \/ Bump("faults"))
      BY DEF DeleteConnector, FrameOp
    <2> QED BY Zenon, <2>1, OpSteps, <1>StageSnap DEF Deletions

  \* Listing the registrations leaves Cloudflare alone.
  <1>SweepFrame.
    ASSUME collectRegistrations
    PROVE  StageFrame /\ UNCHANGED cloud
    <2> USE <1>SweepFrame
    <2>1. /\ UNCHANGED <<up, ann, secret, node>> /\ regs' = regs /\ conns' = conns /\ UNCHANGED cloud
          /\ (UNCHANGED count \/ Bump("faults"))
      BY DEF collectRegistrations, kube, cloud, node
    <2> QED BY Zenon, <2>1, OpSteps, <1>StageSnap DEF Listings

  \* DeleteDeviceRegistration makes no registration.
  <1>DeleteRegistrationFrame.
    ASSUME DeleteDeviceRegistration
    PROVE  StageFrame
    <2> USE <1>DeleteRegistrationFrame
    <2>1. /\ UNCHANGED <<up, ann, secret, node>> /\ regs' \subseteq regs /\ conns' = conns
          /\ (UNCHANGED count \/ Bump("faults"))
      BY DEF DeleteDeviceRegistration, FrameOp
    <2> QED BY Zenon, <2>1, OpSteps, <1>StageSnap DEF Deletions

  \* The operator stops.
  <1>OperatorCrashFrame.
    ASSUME OperatorCrash
    PROVE  OpKept /\ StageFrame /\ UNCHANGED cloud
    <2> USE <1>OperatorCrashFrame
    <2>1. /\ UNCHANGED <<up, ann, secret, node>> /\ regs' = regs /\ conns' = conns /\ UNCHANGED cloud
          /\ (UNCHANGED count \/ Bump("faults")) /\ op' = Idle
      BY DEF OperatorCrash, kube, cloud, node
    <2>2. StageStep
      BY Zenon, <2>1 DEF StageStep
    <2> QED BY Zenon, <2>1, <2>2, IdleOp, <1>StageSnap

  <1>1. Listings => StageFrame /\ UNCHANGED cloud
    BY Zenon, <1>NodeHostsFrame, <1>ReloadFrame, <1>ListRoutesFrame, <1>ListStaleFrame, <1>SweepFrame DEF Listings
  <1>2. Deletions => StageFrame
    BY Zenon, <1>DeleteRouteFrame, <1>DeleteConnectorFrame, <1>DeleteRegistrationFrame DEF Deletions
  <1> QED BY Zenon, <1>1, <1>2, <1>ListNodesFrame, <1>ListConnectorsFrame, <1>CreateFrame, <1>SecretFrame,
             <1>RouteFrame, <1>OperatorCrashFrame
          DEF Finds, Creates, Writes

-----------------------------------------------------------------------------
(* Who holds which registration and which connector.                       *)

\* What a node has advertised, as it stands and as the operator has read it.
Notes(n) == ({ann[n]} \cup {op.snap[m].ann : m \in {n} \cap DOMAIN op.snap}) \ {None}

Holding == {"save", "lease", "run"}

Pair(c, i) == [conn |-> c, ip |-> i]

Drafts(n) == {Pair(fl[n].creds, fl[n].ip) : s \in {fl[n].pc} \cap Holding}

Claims(n) == Notes(n) \cup ({file[n]} \ {None}) \cup Drafts(n)

IpRange == 0 .. count.regs \cup {MaxIds + 1}

\* What loadOrEnroll has found in the state file.
Loaded(n) ==
  /\ fl[n].pc = "supersede" => file[n] # None /\ file[n].conn # fl[n].creds
  /\ fl[n].pc = "refresh" => file[n] # None /\ file[n].conn = fl[n].creds

\* A registration has one holder, and all its copies name the same connector.
ClaimInv ==
  /\ \A n \in Nodes : Loaded(n) /\ \A a \in Claims(n) : a.ip \in IpRange
  /\ \A m, n \in Nodes : \A a \in Claims(m), b \in Claims(n) : a.ip = b.ip => m = n /\ a = b

Advert(n) == {a.conn : a \in Notes(n)}

Held(n) == Advert(n) \cup {fl[n].creds : s \in {fl[n].pc} \ {"down"}}

Known(n) == Held(n) \cup {s.conn : s \in {secret[n]} \ {None}}

IdRange(c) == 0 .. c.conns \cup {MaxIds + 2}

Fits(cs, c, x, n) == x \in IdRange(c) /\ \A d \in cs : d.id = x => d.name = ConnectorName(Cluster, n)

Gone(cs, x) == x \notin IdsOf(cs)

IdsOnce(cs) == \A c, d \in cs : c.id = d.id => c = d

\* An id that a node knows is of a connector of its name; and of all it knows at most the
\* last one is still there.
HoldInv ==
  /\ IdsOf(conns) \subseteq IdRange(count) /\ IdsOnce(conns)
  /\ \A n \in Nodes : \A x \in Known(n) : Fits(conns, count, x, n)
  /\ \A n \in Nodes : secret[n] # None => \A x \in Held(n) : x = secret[n].conn \/ Gone(conns, x)
  /\ \A n \in Nodes : fl[n].pc # "down" => \A x \in Advert(n) : x = fl[n].creds \/ Gone(conns, x)

\* So it is of what the operator has found for the node it is at.
FindInv ==
  /\ op.pc \in {"secret", "route"} => Fits(conns, count, op.id, op.cur)
  /\ op.pc = "secret" => \A x \in Known(op.cur) : x = op.id \/ Gone(conns, x)
  /\ op.pc = "create" => \A x \in Known(op.cur) : Gone(conns, x)

-----------------------------------------------------------------------------
(* Steps that add nothing.                                                 *)

\* Mesh IPs that have been given out stay in range.
LEMMA IpRangeGrows ==
  ASSUME TypeInv, Counts(count'), count.regs <= count'.regs
  PROVE  IpRange \subseteq IpRange'
  <1>1. count.regs \in Nat /\ count'.regs \in Nat /\ MaxIds \in Nat
    BY MeshOperatorAssumption DEF TypeInv, Counts
  <1> QED BY <1>1 DEF IpRange

\* No node holds a claim it did not hold.
LEMMA ClaimsShrink ==
  ASSUME TypeInv, ClaimInv, Counts(count'), count.regs <= count'.regs,
         \A n \in Nodes : Loaded(n)' /\ Claims(n)' \subseteq Claims(n)
  PROVE  ClaimInv'
  <1>1. ASSUME NEW n \in Nodes, NEW a \in Claims(n)' PROVE a.ip \in IpRange'
    BY Zenon, IpRangeGrows DEF ClaimInv
  <1>2. ASSUME NEW m \in Nodes, NEW n \in Nodes, NEW a \in Claims(m)', NEW b \in Claims(n)', a.ip = b.ip
        PROVE  m = n /\ a = b
    <2>1. a \in Claims(m) /\ b \in Claims(n)
      BY Zenon
    <2>2. \A c \in Claims(m), d \in Claims(n) : c.ip = d.ip => m = n /\ c = d
      BY Zenon DEF ClaimInv
    <2> QED BY Zenon, <1>2, <2>1, <2>2
  <1> QED BY Zenon, <1>1, <1>2 DEF ClaimInv

\* Ids stay in range, fit and stay gone when connectors are deleted and new ones are made.
LEMMA AgesKeeps ==
  ASSUME NEW cs, NEW c, NEW ds, NEW d, Ages(cs, c, ds, d), Counts(c), Counts(d),
         IdsOf(cs) \subseteq IdRange(c), IdsOnce(cs)
  PROVE  /\ IdsOf(ds) \subseteq IdRange(d) /\ IdsOnce(ds)
         /\ \A x, n : Fits(cs, c, x, n) => Fits(ds, d, x, n)
         /\ \A x : x \in IdRange(c) /\ Gone(cs, x) => Gone(ds, x)
  <1>1. c.conns \in Nat /\ d.conns \in Nat /\ MaxIds \in Nat /\ d.conns <= MaxIds
    BY MeshOperatorAssumption DEF Counts
  <1>2. CASE ds \subseteq cs /\ c.conns <= d.conns
    <2>1. IdRange(c) \subseteq IdRange(d)
      BY <1>1, <1>2 DEF IdRange
    <2> QED BY Zenon, <1>2, <2>1 DEF Fits, Gone, IdsOf, IdsOnce
  <1>3. ASSUME NEW m, ds = cs \cup {[id |-> c.conns + 1, name |-> ConnectorName(Cluster, m)]},
               d.conns = c.conns + 1
        PROVE  /\ IdsOf(ds) \subseteq IdRange(d) /\ IdsOnce(ds)
               /\ \A x, n : Fits(cs, c, x, n) => Fits(ds, d, x, n)
               /\ \A x : x \in IdRange(c) /\ Gone(cs, x) => Gone(ds, x)
    <2> DEFINE e == [id |-> c.conns + 1, name |-> ConnectorName(Cluster, m)]
    <2>1. /\ IdRange(c) \subseteq IdRange(d) /\ c.conns + 1 \in IdRange(d)
          /\ \A x \in IdRange(c) : x # c.conns + 1
      BY <1>1, <1>3 DEF IdRange
    <2>2. e.id = c.conns + 1 /\ ds = cs \cup {e}
      BY <1>3
    <2> HIDE DEF e
    <2>3. IdsOf(ds) \subseteq IdRange(d)
      BY Zenon, <2>1, <2>2 DEF IdsOf
    <2>4. \A x \in IdRange(c) : e.id # x
      BY Zenon, <2>1, <2>2
    <2>5. \A b \in cs : b.id # e.id
      BY Zenon, <2>4 DEF IdsOf
    <2>6. IdsOnce(ds)
      BY Zenon, <2>2, <2>5 DEF IdsOnce
    <2> QED BY Zenon, <2>1, <2>2, <2>3, <2>4, <2>6 DEF Fits, Gone, IdsOf
  <1> QED BY Zenon, <1>2, <1>3 DEF Ages

\* A flanneld that keeps its credentials, stops, or takes those of its Secret.
FlMoves(n) ==
  \/ fl'[n].pc = "down" /\ Advert(n)' \subseteq Advert(n)
  \/ /\ fl[n].pc # "down" /\ fl'[n].creds = fl[n].creds
     /\ Advert(n)' \subseteq Advert(n) \cup {fl[n].creds}
  \/ /\ secret[n] # None /\ fl'[n].creds = secret[n].conn /\ secret'[n] = secret[n]
     /\ Advert(n)' \subseteq Advert(n)

\* Such a flanneld learns no id that the node did not know.
LEMMA KnownIn ==
  ASSUME NEW n \in Nodes, FlMoves(n), secret'[n] \in {secret[n], None}
  PROVE  Known(n)' \subseteq Known(n) /\ Held(n)' \subseteq Known(n)
  BY Zenon DEF FlMoves, Known, Held

\* With flannelds that only move so, ids still fit and outlived ids stay gone.
LEMMA HoldStep ==
  ASSUME TypeInv, HoldInv, Counts(count'), Ages(conns, count, conns', count'),
         \A n \in Nodes : FlMoves(n) /\ secret'[n] \in {secret[n], None}
  PROVE  HoldInv' /\ \A n \in Nodes : Known(n)' \subseteq Known(n)
  <1>1. /\ IdsOf(conns') \subseteq IdRange(count') /\ IdsOnce(conns')
        /\ \A x, n : Fits(conns, count, x, n) => Fits(conns', count', x, n)
        /\ \A x : x \in IdRange(count) /\ Gone(conns, x) => Gone(conns', x)
    BY Zenon, AgesKeeps, CountFacts DEF HoldInv
  <1>2. ASSUME NEW n \in Nodes PROVE Known(n)' \subseteq Known(n) /\ Held(n)' \subseteq Known(n)
    BY Zenon, KnownIn
  <1>3. ASSUME NEW n \in Nodes, NEW x \in Known(n)' PROVE Fits(conns', count', x, n)
    BY Zenon, <1>1, <1>2 DEF HoldInv
  <1>4. ASSUME NEW n \in Nodes, NEW x \in Known(n), Gone(conns, x) PROVE Gone(conns', x)
    BY Zenon, <1>1, <1>4 DEF HoldInv, Fits
  <1>5. ASSUME NEW n \in Nodes, secret'[n] # None, NEW x \in Held(n)'
        PROVE  x = secret'[n].conn \/ Gone(conns', x)
    <2>1. secret'[n] = secret[n] /\ x \in Known(n)
      BY Zenon, <1>2, <1>5
    <2>2. x = secret[n].conn \/ x \in Held(n)
      BY Zenon, <2>1 DEF Known
    <2>3. x = secret[n].conn \/ Gone(conns, x)
      BY Zenon, <1>5, <2>1, <2>2 DEF HoldInv
    <2> QED BY Zenon, <1>4, <2>1, <2>3
  <1>6. ASSUME NEW n \in Nodes, fl'[n].pc # "down", NEW x \in Advert(n)'
        PROVE  x = fl'[n].creds \/ Gone(conns', x)
    <2>1. x \in Held(n)' /\ x \in Known(n)
      BY Zenon, <1>2 DEF Held
    <2>2. CASE fl[n].pc # "down" /\ fl'[n].creds = fl[n].creds /\ Advert(n)' \subseteq Advert(n) \cup {fl[n].creds}
      BY Zenon, <1>4, <2>1, <2>2 DEF HoldInv
    <2>3. CASE secret[n] # None /\ fl'[n].creds = secret[n].conn /\ secret'[n] = secret[n]
      <3>1. x = secret'[n].conn \/ Gone(conns', x)
        BY Zenon, <1>5, <2>1, <2>3
      <3> QED BY Zenon, <2>3, <3>1
    <2> QED BY Zenon, <1>6, <2>2, <2>3 DEF FlMoves
  <1> QED BY Zenon, <1>1, <1>2, <1>3, <1>5, <1>6 DEF HoldInv

\* A step that is no step of the operator, or one that leaves the node.
LEMMA FindStep ==
  ASSUME TypeInv, OpInv, HoldInv, FindInv, Counts(count'), Ages(conns, count, conns', count'),
         \A n \in Nodes : Known(n)' \subseteq Known(n), op' = op \/ op'.pc \notin Busy
  PROVE  FindInv'
  <1>1. CASE op'.pc \notin Busy
    BY Zenon, <1>1 DEF FindInv, Busy
  <1>2. CASE op' = op
    <2>1. /\ \A x, n : Fits(conns, count, x, n) => Fits(conns', count', x, n)
          /\ \A x : x \in IdRange(count) /\ Gone(conns, x) => Gone(conns', x)
      BY Zenon, AgesKeeps, CountFacts DEF HoldInv
    <2>2. op.pc \in Busy => op.cur \in Nodes
      <3>1. Busy \subseteq Loop
        BY DEF Busy, Loop
      <3> QED BY Zenon, <3>1, OpFacts DEF Serves, ListOK
    <2>3. ASSUME op.pc \in Busy, NEW x \in Known(op.cur)', Gone(conns, x) PROVE Gone(conns', x)
      <3>1. x \in Known(op.cur)
        BY Zenon, <2>2, <2>3, <1>2
      <3> QED BY Zenon, <2>1, <2>2, <2>3, <3>1 DEF HoldInv, Fits
    <2> QED BY Zenon, <1>2, <2>1, <2>2, <2>3 DEF FindInv, Busy
  <1> QED BY Zenon, <1>1, <1>2

-----------------------------------------------------------------------------
(* The steps of the operator.                                              *)

MeshInv == TypeInv /\ OpInv /\ ClaimInv /\ HoldInv /\ FindInv

\* A step of the operator adds nothing to what nodes have advertised.
LEMMA NotesShrink ==
  ASSUME SnapFrom, ann' = ann, NEW n
  PROVE  Notes(n)' \subseteq Notes(n) /\ Advert(n)' \subseteq Advert(n)
  <1>1. ASSUME NEW a \in Notes(n)' PROVE a \in Notes(n)
    <2>1. a # None /\ (a = ann[n] \/ (n \in DOMAIN op'.snap /\ a = op'.snap[n].ann))
      BY Zenon DEF Notes
    <2>2. a = ann[n] \/ (n \in DOMAIN op.snap /\ a = op.snap[n].ann)
      BY Zenon, <2>1 DEF SnapFrom
    <2> QED BY Zenon, <2>1, <2>2 DEF Notes
  <1> QED BY Zenon, <1>1 DEF Advert

\* A step of the operator keeps the types, its own record and the claims.
LEMMA OpTypes ==
  ASSUME MeshInv, OpFrame, OpKept, secret' \in [Nodes -> {None} \cup Creds]
  PROVE  TypeInv' /\ OpInv' /\ ClaimInv'
  <1>1. TypeInv'
    BY Zenon DEF MeshInv, TypeInv, OpFrame, Counts, OpKept, OpOK
  <1>2. OpInv'
    BY Zenon DEF OpKept, OpOK, OpInv
  <1>3. ASSUME NEW n \in Nodes PROVE Loaded(n)' /\ Claims(n)' \subseteq Claims(n)
    <2>1. Notes(n)' \subseteq Notes(n)
      BY Zenon, NotesShrink DEF OpFrame
    <2>2. Loaded(n)'
      BY Zenon DEF MeshInv, ClaimInv, Loaded, OpFrame
    <2>3. Drafts(n)' = Drafts(n) /\ file'[n] = file[n]
      BY Zenon DEF Drafts, OpFrame
    <2> QED BY Zenon, <2>1, <2>2, <2>3 DEF Claims
  <1>4. count.regs <= count'.regs
    BY DEF OpFrame, Counts
  <1>5. ClaimInv'
    BY Zenon, <1>3, <1>4, ClaimsShrink DEF MeshInv, OpFrame
  <1> QED BY Zenon, <1>1, <1>2, <1>5

\* A step of the operator that writes no Secret keeps what nodes hold.
LEMMA OpHolds ==
  ASSUME MeshInv, OpFrame, secret' = secret
  PROVE  HoldInv' /\ \A n \in Nodes : Known(n)' \subseteq Known(n)
  <1>1. ASSUME NEW n \in Nodes PROVE FlMoves(n) /\ secret'[n] \in {secret[n], None}
    <2>1. Advert(n)' \subseteq Advert(n) /\ fl' = fl
      BY Zenon, NotesShrink DEF OpFrame
    <2> QED BY Zenon, <2>1 DEF FlMoves
  <1> QED BY Zenon, <1>1, HoldStep DEF MeshInv, OpFrame

\* Every stage keeps the invariant.
LEMMA StageInv ==
  ASSUME MeshInv, StageFrame, OpKept
  PROVE  MeshInv'
  <1>1. HoldInv' /\ \A n \in Nodes : Known(n)' \subseteq Known(n)
    BY Zenon, OpHolds DEF StageFrame
  <1>2. FindInv'
    BY Zenon, <1>1, FindStep DEF MeshInv, StageFrame, OpFrame
  <1>3. secret' \in [Nodes -> {None} \cup Creds]
    BY Zenon DEF StageFrame, MeshInv, TypeInv
  <1> QED BY Zenon, <1>1, <1>2, <1>3, OpTypes DEF MeshInv, StageFrame

\* Nothing is deleted at Cloudflare.
Grows == conns \subseteq conns' /\ routes \subseteq routes' /\ regs \subseteq regs'

\* The steps that delete.
Deletes ==
  \/ DeleteRoute \/ DeleteConnector \/ DeleteDeviceRegistration \/ Age
  \/ \E n \in Nodes : deleteRegistration(n)

\* A step that leaves Cloudflare alone deletes nothing.
LEMMA CloudGrows ==
  UNCHANGED cloud => Grows
  BY DEF cloud, Grows

\* Every step of a reconcile.
LEMMA ReconcileStep ==
  ASSUME MeshInv, Reconcile
  PROVE  MeshInv' /\ (Grows \/ Deletes)
  \* Listing the nodes keeps the invariant.
  <1>ListNodesInv.
    ASSUME ListNodes
    PROVE  MeshInv' /\ UNCHANGED cloud
    <2> USE <1>ListNodesInv
    <2>1. secret' = secret /\ UNCHANGED cloud
      BY DEF ListNodes
    <2>2. StageFrame /\ OpKept
      BY Zenon, <2>1, OpSteps, OpFrames DEF MeshInv, StageFrame, AtNodes
    <2> QED BY Zenon, <2>1, <2>2, StageInv

  \* The node the operator is at.
  <1>AtNode.
    ASSUME op.pc \in Loop
    PROVE  op.cur \in Nodes
    BY Zenon, <1>AtNode, OpFacts DEF MeshInv, Serves, ListOK

  \* A connector that is found is the only one of its name: whatever else the node knows
  \* is gone.
  <1>ListConnectorsInv.
    ASSUME ListConnectors
    PROVE  MeshInv' /\ UNCHANGED cloud
    <2> USE <1>ListConnectorsInv
    <2>0. PICK x : x = op.cur
      OBVIOUS
    <2>1. /\ OpFrame /\ secret' = secret /\ conns' = conns /\ OpKept
          /\ \/ op'.pc \notin Busy
             \/ op'.pc = "create" /\ Named(x) = {} /\ op'.cur = x
             \/ op'.pc = "secret" /\ op'.cur = x /\ \E c : Named(x) = {c} /\ op'.id = c.id
      BY Zenon, <2>0, OpFrames, OpSteps DEF MeshInv, Finds, AtNodes
    <2>2. HoldInv' /\ \A n \in Nodes : Known(n)' \subseteq Known(n)
      BY Zenon, <2>1, OpHolds
    <2>3. secret' \in [Nodes -> {None} \cup Creds]
      BY Zenon, <2>1 DEF MeshInv, TypeInv
    <2>4. op.pc \in Loop /\ UNCHANGED cloud
      BY DEF ListConnectors, Loop
    <2>5. x \in Nodes
      BY Zenon, <2>0, <2>4, <1>AtNode
    <2>6. \A y \in Known(x)' : \A d \in conns : d.id = y => d \in Named(x)
      <3>1. \A y \in Known(x)' : Fits(conns, count, y, x)
        BY Zenon, <2>2, <2>5 DEF MeshInv, HoldInv
      <3> QED BY Zenon, <3>1 DEF Fits, Named
    <2>7. FindInv'
      <3>1. CASE op'.pc \notin Busy
        BY Zenon, <3>1 DEF FindInv, Busy
      <3>2. CASE op'.pc = "create" /\ Named(x) = {} /\ op'.cur = x
        <4>1. ASSUME NEW y \in Known(x)' PROVE Gone(conns', y)
          BY Zenon, <2>1, <2>6, <3>2 DEF Gone, IdsOf
        <4>2. "create" \notin {"secret", "route"} /\ "create" # "secret"
          OBVIOUS
        <4> QED BY Zenon, <3>2, <4>1, <4>2 DEF FindInv
      <3>3. ASSUME op'.pc = "secret", op'.cur = x, NEW c, Named(x) = {c}, op'.id = c.id
            PROVE  FindInv'
        <4>1. c \in conns /\ c.name = ConnectorName(Cluster, x) /\ c.id \in IdRange(count)
          BY Zenon, <3>3 DEF Named, MeshInv, HoldInv, IdsOf
        <4>2. Fits(conns, count, c.id, x)
          BY Zenon, <4>1 DEF Fits, MeshInv, HoldInv, IdsOnce
        <4>3. Fits(conns', count', c.id, x)
          BY Zenon, <4>2, AgesKeeps, CountFacts, <2>1 DEF MeshInv, HoldInv, OpFrame
        <4>4. ASSUME NEW y \in Known(x)', ~Gone(conns', y) PROVE y = c.id
          <5>1. PICK d \in conns : d.id = y
            BY Zenon, <2>1, <4>4 DEF Gone, IdsOf
          <5> QED BY Zenon, <2>6, <3>3, <5>1
        <4>5. "secret" # "create"
          OBVIOUS
        <4> QED BY Zenon, <3>3, <4>3, <4>4, <4>5 DEF FindInv
      <3> QED BY Zenon, <2>1, <3>1, <3>2, <3>3
    <2> QED BY Zenon, <2>1, <2>2, <2>3, <2>4, <2>7, OpTypes DEF MeshInv

  \* A new connector is the only one of its id.
  <1>NewFits.
    ASSUME count.conns < MaxIds, Counts(count'), count'.conns = count.conns + 1, NEW n,
           conns' = conns \cup {New(n)}
    PROVE  Fits(conns', count', count.conns + 1, n)
    <2> USE <1>NewFits
    <2> DEFINE i == count.conns + 1
               d == New(n)
    <2>1. d.id = i /\ d.name = ConnectorName(Cluster, n)
      BY DEF New
    <2>2. i \in IdRange(count') /\ i \notin IdRange(count)
      BY MeshOperatorAssumption DEF MeshInv, TypeInv, IdRange
    <2> HIDE DEF i, d
    <2>3. \A b \in conns : b.id # i
      BY Zenon, <2>2 DEF MeshInv, HoldInv, IdsOf
    <2>4. Fits(conns', count', i, n)
      BY Zenon, <2>1, <2>2, <2>3 DEF Fits, d
    <2> QED BY Zenon, <2>4 DEF i

  \* A connector is created when none of the node's name is there: all the node knows is
  \* gone, and the new id has not been used.
  <1>CreateInv.
    ASSUME createConnector
    PROVE  MeshInv' /\ conns \subseteq conns' /\ routes' = routes /\ regs' = regs
    <2> USE <1>CreateInv
    <2>0. PICK x : x = op.cur
      OBVIOUS
    <2> DEFINE i == count.conns + 1
    <2>1. /\ OpFrame /\ secret' = secret /\ OpKept /\ op.pc = "create" /\ count.conns < MaxIds
          /\ count'.conns = i /\ conns' = conns \cup {New(x)}
          /\ (op'.pc \notin Busy \/ (op'.pc = "secret" /\ op'.cur = x /\ op'.id = i))
      BY Zenon, <2>0, OpFrames, OpSteps DEF MeshInv, Creates, AtNodes
    <2>2. HoldInv' /\ \A n \in Nodes : Known(n)' \subseteq Known(n)
      BY Zenon, <2>1, OpHolds
    <2>3. secret' \in [Nodes -> {None} \cup Creds]
      BY Zenon, <2>1 DEF MeshInv, TypeInv
    <2>4. op.pc \in Loop /\ routes' = routes /\ regs' = regs
      BY DEF createConnector, Loop
    <2>5. x \in Nodes
      BY Zenon, <2>0, <2>4, <1>AtNode
    <2>6. Fits(conns', count', i, x)
      BY Zenon, <2>1, <1>NewFits DEF OpFrame
    <2> HIDE DEF i
    <2>7. FindInv'
      <3>1. CASE op'.pc \notin Busy
        BY Zenon, <3>1 DEF FindInv, Busy
      <3>2. CASE op'.pc = "secret" /\ op'.cur = x /\ op'.id = i
        <4>1. ASSUME NEW y \in Known(x)' PROVE Gone(conns', y)
          <5>1. Gone(conns, y) /\ y \in IdRange(count)
            BY Zenon, <2>0, <2>1, <2>2, <2>5 DEF MeshInv, HoldInv, FindInv, Fits
          <5>2. Counts(count) /\ Counts(count') /\ Ages(conns, count, conns', count')
            BY Zenon, <2>1, CountFacts DEF MeshInv, OpFrame
          <5> QED BY Zenon, <5>1, <5>2, AgesKeeps DEF MeshInv, HoldInv
        <4>2. "secret" # "create"
          OBVIOUS
        <4> QED BY Zenon, <2>6, <3>2, <4>1, <4>2 DEF FindInv
      <3> QED BY Zenon, <2>1, <3>1, <3>2
    <2> QED BY Zenon, <2>1, <2>2, <2>3, <2>4, <2>7, OpTypes DEF MeshInv

  \* The Secret is written for the only connector of the node that is still there.
  <1>SecretInv.
    ASSUME ensureBootstrapSecret
    PROVE  MeshInv' /\ UNCHANGED cloud
    <2> USE <1>SecretInv
    <2> DEFINE x == op.cur
               s == Secret(op)
    <2>1. /\ OpFrame /\ OpKept /\ op.pc = "secret" /\ conns' = conns
          /\ secret' \in {secret, [secret EXCEPT ![x] = s]}
          /\ (op'.pc \notin Busy \/ (op'.pc = "route" /\ op'.cur = x /\ op'.id = op.id))
      BY Zenon, OpFrames, OpSteps DEF MeshInv, Writes, AtNodes
    <2>2. op.pc \in Loop /\ UNCHANGED cloud
      BY DEF ensureBootstrapSecret, Loop
    <2>3. x \in Nodes /\ x \in DOMAIN op.snap
      BY Zenon, <2>2, <1>AtNode, OpFacts DEF MeshInv, Serves
    <2>4. Fits(conns, count, op.id, x) /\ \A y \in Known(x) : y = op.id \/ Gone(conns, y)
      BY Zenon, <2>1 DEF MeshInv, FindInv
    <2>5. s = [conn |-> op.id, owner |-> op.snap[x].uid] /\ s.conn = op.id /\ s \in Creds
      <3>1. op.snap[x].uid \in Nat
        BY Zenon, <2>3 DEF MeshInv, TypeInv, ListOK
      <3>2. op.id \in Nat
        BY <2>4, MeshOperatorAssumption DEF Fits, IdRange, MeshInv, TypeInv
      <3> QED BY <3>1, <3>2 DEF Secret, Creds
    <2>6. s # None
      BY Zenon, <2>5, MeshOperatorAssumption DEF Creds
    <2> HIDE DEF s
    <2>7. secret' \in [Nodes -> {None} \cup Creds]
      BY Zenon, <2>1, <2>3, <2>5 DEF MeshInv, TypeInv
    <2>8. ASSUME NEW n \in Nodes
          PROVE  /\ Advert(n)' \subseteq Advert(n) /\ Held(n)' \subseteq Held(n)
                 /\ secret'[n] = secret[n] \/ (n = x /\ secret'[n] = s)
      <3>1. Advert(n)' \subseteq Advert(n) /\ fl' = fl
        BY Zenon, <2>1, NotesShrink DEF OpFrame
      <3>2. secret'[n] = secret[n] \/ (n = x /\ secret'[n] = s)
        BY Zenon, <2>1, <2>3 DEF MeshInv, TypeInv
      <3> QED BY Zenon, <3>1, <3>2 DEF Held
    <2>9. /\ IdsOf(conns') \subseteq IdRange(count') /\ IdsOnce(conns')
          /\ \A y, n : Fits(conns, count, y, n) => Fits(conns', count', y, n)
      BY Zenon, <2>1, AgesKeeps, CountFacts DEF MeshInv, HoldInv, OpFrame
    <2>10. ASSUME NEW n \in Nodes, NEW y \in Known(n)' PROVE Fits(conns', count', y, n)
      <3>1. y \in Held(n)' \/ (secret'[n] # None /\ y = secret'[n].conn)
        BY Zenon, <2>10 DEF Known
      <3>2. CASE y \in Held(n)' \/ secret'[n] = secret[n]
        <4>1. y \in Held(n) \/ (secret[n] # None /\ y = secret[n].conn)
          BY Zenon, <2>8, <3>1, <3>2
        <4>2. y \in Known(n)
          BY Zenon, <4>1 DEF Known
        <4> QED BY Zenon, <2>9, <4>2 DEF MeshInv, HoldInv
      <3>3. CASE y \notin Held(n)' /\ n = x /\ secret'[n] = s
        <4>1. y = op.id
          BY Zenon, <2>5, <3>1, <3>3
        <4> QED BY Zenon, <2>4, <2>9, <3>3, <4>1
      <3> QED BY Zenon, <2>8, <3>2, <3>3
    <2>11. ASSUME NEW n \in Nodes, secret'[n] # None, NEW y \in Held(n)'
           PROVE  y = secret'[n].conn \/ Gone(conns', y)
      <3>1. y \in Held(n) /\ y \in Known(n)
        BY Zenon, <2>8 DEF Known
      <3>2. CASE secret'[n] = secret[n]
        BY Zenon, <2>1, <2>11, <3>1, <3>2 DEF MeshInv, HoldInv
      <3>3. CASE n = x /\ secret'[n] = s
        BY Zenon, <2>1, <2>4, <2>5, <3>1, <3>3
      <3> QED BY Zenon, <2>8, <3>2, <3>3
    <2>12. ASSUME NEW n \in Nodes, fl'[n].pc # "down", NEW y \in Advert(n)'
           PROVE  y = fl'[n].creds \/ Gone(conns', y)
      BY Zenon, <2>1, <2>8, <2>12 DEF MeshInv, HoldInv, OpFrame
    <2>13. HoldInv'
      BY Zenon, <2>9, <2>10, <2>11, <2>12 DEF HoldInv
    <2>14. FindInv'
      <3>1. CASE op'.pc \notin Busy
        BY Zenon, <3>1 DEF FindInv, Busy
      <3>2. CASE op'.pc = "route" /\ op'.cur = x /\ op'.id = op.id
        <4>1. "route" # "create" /\ "route" # "secret"
          OBVIOUS
        <4> QED BY Zenon, <2>4, <2>9, <3>2, <4>1 DEF FindInv
      <3> QED BY Zenon, <2>1, <3>1, <3>2
    <2> QED BY Zenon, <2>1, <2>2, <2>7, <2>13, <2>14, OpTypes DEF MeshInv

  <1>0. TypeInv /\ OpInv
    BY Zenon DEF MeshInv
  <1>1. CASE ListNodes
    BY Zenon, <1>1, <1>ListNodesInv, CloudGrows
  <1>2. CASE ListConnectors
    BY Zenon, <1>2, <1>ListConnectorsInv, CloudGrows
  <1>3. CASE createConnector
    BY Zenon, <1>3, <1>CreateInv DEF Grows
  <1>4. CASE ensureBootstrapSecret
    BY Zenon, <1>4, <1>SecretInv, CloudGrows
  <1>5. CASE EnsureRoute
    BY Zenon, <1>0, <1>5, OpFrames, OpSteps, StageInv DEF Grows, AtNodes
  <1>6. CASE ensureCoreDNSNodeHosts
    BY Zenon, <1>0, <1>6, OpFrames, OpSteps, StageInv, CloudGrows DEF Listings
  <1>7. CASE ensureCoreDNSReload
    BY Zenon, <1>0, <1>7, OpFrames, OpSteps, StageInv, CloudGrows DEF Listings
  <1>8. CASE ListRoutes
    BY Zenon, <1>0, <1>8, OpFrames, OpSteps, StageInv, CloudGrows DEF Listings
  <1>9. CASE DeleteRoute
    BY Zenon, <1>0, <1>9, OpFrames, OpSteps, StageInv DEF Deletes, Deletions
  <1>10. CASE ListStaleConnectors
    BY Zenon, <1>0, <1>10, OpFrames, OpSteps, StageInv, CloudGrows DEF Listings
  <1>11. CASE DeleteConnector
    BY Zenon, <1>0, <1>11, OpFrames, OpSteps, StageInv DEF Deletes, Deletions
  <1>12. CASE collectRegistrations
    BY Zenon, <1>0, <1>12, OpFrames, OpSteps, StageInv, CloudGrows DEF Listings
  <1>13. CASE DeleteDeviceRegistration
    BY Zenon, <1>0, <1>13, OpFrames, OpSteps, StageInv DEF Deletes, Deletions
  <1> QED BY Zenon, <1>1, <1>2, <1>3, <1>4, <1>5, <1>6, <1>7, <1>8, <1>9, <1>10, <1>11, <1>12, <1>13
          DEF Reconcile

-----------------------------------------------------------------------------
(* The steps of a node.                                                    *)

Process == [pc : Pcs, creds : Nat, ip : Nat]

RegsOK(rs) == \A r \in rs : DOMAIN r = {"ip", "name", "old"}

NodeStep(n) ==
  /\ op' = op /\ conns' = conns /\ secret' = secret /\ routes' = routes
  /\ Counts(count') /\ count'.conns = count.conns /\ count.regs <= count'.regs
  /\ up' \in [Nodes -> Nat] /\ ann' \in [Nodes -> {None} \cup Claim]
  /\ file' \in [Nodes -> {None} \cup Claim] /\ fl' \in [Nodes -> Process] /\ RegsOK(regs')
  /\ \A m \in Nodes : m # n => ann'[m] = ann[m] /\ file'[m] = file[m] /\ fl'[m] = fl[m]

\* What a flanneld takes that gives up its registration.
TakesOwn(n) ==
  /\ op' = op /\ conns' = conns /\ routes' = routes
  /\ fl[n].pc = "supersede" /\ \A r \in regs : r \notin regs' => r.ip = file[n].ip

\* A node that a step leaves alone.
LEMMA SameNode ==
  ASSUME MeshInv, NEW m \in Nodes, op' = op, ann'[m] = ann[m], file'[m] = file[m], fl'[m] = fl[m]
  PROVE  Loaded(m)' /\ Claims(m)' = Claims(m) /\ FlMoves(m)
  <1>1. Notes(m)' = Notes(m)
    BY Zenon DEF Notes
  <1>2. Drafts(m)' = Drafts(m)
    BY Zenon DEF Drafts
  <1>3. Claims(m)' = Claims(m)
    BY Zenon, <1>1, <1>2 DEF Claims
  <1>4. Advert(m)' = Advert(m)
    BY Zenon, <1>1 DEF Advert
  <1>5. FlMoves(m)
    BY Zenon, <1>4 DEF FlMoves
  <1>6. Loaded(m)'
    BY Zenon DEF Loaded, MeshInv, ClaimInv
  <1> QED BY Zenon, <1>3, <1>5, <1>6

\* Counting a failure, or nothing.
LEMMA Uncounted ==
  ASSUME MeshInv, UNCHANGED count \/ Bump("faults")
  PROVE  Counts(count') /\ count'.conns = count.conns /\ count.regs <= count'.regs
  <1>1. Counts(count') /\ count'.regs = count.regs /\ count'.conns = count.conns
    BY Zenon, CountFacts DEF MeshInv
  <1> QED BY <1>1 DEF Counts

\* A flanneld that ends.
LEMMA OffFacts ==
  Off \in Process /\ Off.pc = "down"
  BY DEF Off, Process, Pcs

\* Every step of a flanneld, its crashes, and the changes of its node.
LEMMA FlanneldStep ==
  ASSUME MeshInv
  PROVE  \A n \in Nodes :
           /\ Flanneld(n) => MeshInv' /\ (Grows \/ Deletes)
           /\ Crash(n) \/ LoseFile(n) \/ NodeChange(n) => MeshInv' /\ Grows
           /\ deleteRegistration(n) => TakesOwn(n)
  \* A node that gives claims up keeps the claims apart.
  <1>NodeClaims.
    ASSUME NEW n \in Nodes, NodeStep(n), Loaded(n)', Claims(n)' \subseteq Claims(n)
    PROVE  ClaimInv'
    <2> USE <1>NodeClaims
    <2>1. ASSUME NEW m \in Nodes PROVE Loaded(m)' /\ Claims(m)' \subseteq Claims(m)
      <3>1. CASE m = n
        BY Zenon, <3>1
      <3>2. CASE m # n
        BY Zenon, <3>2, SameNode DEF NodeStep
      <3> QED BY Zenon, <3>1, <3>2
    <2> QED BY Zenon, <2>1, ClaimsShrink DEF MeshInv, NodeStep

  \* A step of one flanneld keeps the invariant when the claims stay apart and the
  \* flanneld's credentials come from its Secret.
  <1>NodeInv.
    ASSUME NEW n \in Nodes, NodeStep(n), FlMoves(n), ClaimInv'
    PROVE  MeshInv'
    <2> USE <1>NodeInv
    <2>1. TypeInv'
      BY Zenon DEF MeshInv, TypeInv, NodeStep, Counts, Process, RegsOK
    <2>2. OpInv'
      BY Zenon DEF MeshInv, OpInv, NodeStep
    <2>3. ASSUME NEW m \in Nodes PROVE FlMoves(m) /\ secret'[m] \in {secret[m], None}
      <3>1. CASE m = n
        BY Zenon, <3>1 DEF NodeStep
      <3>2. CASE m # n
        BY Zenon, <3>2, SameNode DEF NodeStep
      <3> QED BY Zenon, <3>1, <3>2
    <2>4. Ages(conns, count, conns', count') /\ Counts(count')
      BY Zenon, AgesSame DEF MeshInv, NodeStep
    <2>5. HoldInv' /\ \A m \in Nodes : Known(m)' \subseteq Known(m)
      BY Zenon, <2>3, <2>4, HoldStep DEF MeshInv
    <2>6. FindInv'
      BY Zenon, <2>4, <2>5, FindStep DEF MeshInv, NodeStep
    <2> QED BY Zenon, <2>1, <2>2, <2>5, <2>6 DEF MeshInv

  \* The two parts of the frame of flanneld's steps.
  <1>FlFrame.
    ASSUME NEW n \in Nodes, NEW s \in Process, fl' = [fl EXCEPT ![n] = s], FrameFl,
           file' = file \/ (\E f \in {None} \cup Claim : file' = [file EXCEPT ![n] = f]),
           RegsOK(regs'), Counts(count'), count'.conns = count.conns, count.regs <= count'.regs
    PROVE  NodeStep(n) /\ fl'[n] = s /\ Notes(n)' = Notes(n) /\ Advert(n)' = Advert(n)
    <2> USE <1>FlFrame
    <2>1. op' = op /\ conns' = conns /\ secret' = secret /\ routes' = routes /\ up' = up /\ ann' = ann
      BY DEF FrameFl, kube
    <2>2. fl' \in [Nodes -> Process] /\ fl'[n] = s /\ \A m \in Nodes : m # n => fl'[m] = fl[m]
      <3>1. fl \in [Nodes -> Process]
        BY Zenon DEF MeshInv, TypeInv, Process
      <3> QED BY Zenon, <3>1
    <2>3. file' \in [Nodes -> {None} \cup Claim] /\ \A m \in Nodes : m # n => file'[m] = file[m]
      BY Zenon DEF MeshInv, TypeInv
    <2>4. Notes(n)' = Notes(n)
      BY Zenon, <2>1 DEF Notes
    <2>5. Advert(n)' = Advert(n)
      BY Zenon, <2>4 DEF Advert
    <2>6. up' \in [Nodes -> Nat] /\ ann' \in [Nodes -> {None} \cup Claim]
      BY Zenon, <2>1 DEF MeshInv, TypeInv
    <2> QED BY Zenon, <2>1, <2>2, <2>3, <2>4, <2>5, <2>6 DEF NodeStep

  \* The process and the state file of a node.
  <1>FlFacts.
    ASSUME NEW n \in Nodes
    PROVE  fl[n] \in Process /\ fl[n].creds \in Nat /\ fl[n].ip \in Nat /\ file[n] \in {None} \cup Claim
    <2> USE <1>FlFacts
    <2>1. fl[n] \in Process /\ file[n] \in {None} \cup Claim
      BY Zenon DEF MeshInv, TypeInv, Process
    <2> QED BY <2>1 DEF Process

  \* A flanneld that stops keeps the invariant.
  <1>OffInv.
    ASSUME NEW n \in Nodes, NodeStep(n), fl'[n] = Off, Notes(n)' \subseteq Notes(n),
           file'[n] \in {file[n], None}
    PROVE  MeshInv'
    <2> USE <1>OffInv
    <2>1. Off.pc # "supersede" /\ Off.pc # "refresh" /\ Off.pc \notin Holding
      BY DEF Off, Holding
    <2>2. Loaded(n)'
      BY Zenon, <2>1 DEF Loaded
    <2>3. Drafts(n)' = {}
      BY Zenon, <2>1 DEF Drafts
    <2>4. Claims(n)' \subseteq Claims(n)
      BY Zenon, <2>3 DEF Claims
    <2>5. FlMoves(n)
      BY Zenon, OffFacts DEF FlMoves, Advert
    <2> QED BY Zenon, <2>2, <2>4, <2>5, <1>NodeClaims, <1>NodeInv

  \* waitForOperatorCredentials takes the credentials of the Secret and loads the file.
  <1>WaitInv.
    ASSUME NEW n \in Nodes, waitForOperatorCredentials(n)
    PROVE  MeshInv' /\ UNCHANGED cloud
    <2> USE <1>WaitInv
    <2> DEFINE id == secret[n].conn
               p == loadOrEnroll(file[n], id)
               s == [Off EXCEPT !.pc = p, !.creds = id]
    <2>1. /\ secret[n] # None /\ fl' = [fl EXCEPT ![n] = s] /\ FrameFl /\ regs' = regs /\ file' = file
          /\ UNCHANGED count /\ UNCHANGED cloud
      BY DEF waitForOperatorCredentials, Move, FrameFl, cloud
    <2>2. id \in Nat
      <3>1. secret[n] \in Creds
        BY Zenon, <2>1 DEF MeshInv, TypeInv
      <3> QED BY <3>1 DEF Creds
    <2>3. /\ p \in Pcs /\ p \notin Holding
          /\ p = "supersede" => file[n] # None /\ file[n].conn # id
          /\ p = "refresh" => file[n] # None /\ file[n].conn = id
      BY DEF loadOrEnroll, Pcs, Holding
    <2> HIDE DEF id, p
    <2>4. s \in Process /\ s.pc = p /\ s.creds = id
      BY Zenon, <2>2, <2>3 DEF Process, Off
    <2> HIDE DEF s
    <2>5. NodeStep(n) /\ fl'[n] = s /\ Notes(n)' = Notes(n) /\ Advert(n)' = Advert(n)
      BY Zenon, <2>1, <2>4, <1>FlFrame, Uncounted DEF MeshInv, TypeInv, RegsOK
    <2>6. Loaded(n)'
      BY Zenon, <2>1, <2>3, <2>4, <2>5 DEF Loaded
    <2>7. Drafts(n)' = {}
      BY Zenon, <2>3, <2>4, <2>5 DEF Drafts
    <2>8. Claims(n)' \subseteq Claims(n)
      BY Zenon, <2>1, <2>5, <2>7 DEF Claims
    <2>9. FlMoves(n)
      BY Zenon, <2>1, <2>4, <2>5 DEF FlMoves, NodeStep, id
    <2> QED BY Zenon, <2>1, <2>5, <2>6, <2>8, <2>9, <1>NodeClaims, <1>NodeInv

  \* deleteRegistration: a flanneld deletes the registration of its own state file.
  <1>DeregisterInv.
    ASSUME NEW n \in Nodes, deleteRegistration(n)
    PROVE  /\ MeshInv' /\ op' = op /\ conns' = conns /\ routes' = routes
           /\ fl[n].pc = "supersede" /\ \A r \in regs : r \notin regs' => r.ip = file[n].ip
    <2> USE <1>DeregisterInv
    <2> DEFINE s == [fl[n] EXCEPT !.pc = "enroll"]
    <2>1. /\ fl[n].pc = "supersede" /\ fl' = [fl EXCEPT ![n] = s] /\ FrameFl /\ file' = file
          /\ (regs' = regs \/ regs' = {r \in regs : r.ip # file[n].ip})
          /\ (UNCHANGED count \/ Bump("faults"))
      BY DEF deleteRegistration, Move
    <2>2. s \in Process /\ s.pc = "enroll" /\ s.creds = fl[n].creds
      BY <1>FlFacts DEF Process, Pcs
    <2> HIDE DEF s
    <2>3. RegsOK(regs') /\ \A r \in regs : r \notin regs' => r.ip = file[n].ip
      BY Zenon, <2>1 DEF MeshInv, TypeInv, RegsOK
    <2>4. NodeStep(n) /\ fl'[n] = s /\ Notes(n)' = Notes(n) /\ Advert(n)' = Advert(n)
      BY Zenon, <2>1, <2>2, <2>3, <1>FlFrame, Uncounted
    <2>5. "enroll" # "supersede" /\ "enroll" # "refresh" /\ "enroll" \notin Holding /\ "supersede" # "down"
      BY DEF Holding
    <2>6. Loaded(n)' /\ Drafts(n)' = {}
      BY Zenon, <2>2, <2>4, <2>5 DEF Loaded, Drafts
    <2>7. Claims(n)' \subseteq Claims(n)
      BY Zenon, <2>1, <2>4, <2>6 DEF Claims
    <2>8. FlMoves(n)
      BY Zenon, <2>1, <2>2, <2>4, <2>5 DEF FlMoves
    <2> QED BY Zenon, <2>1, <2>3, <2>4, <2>6, <2>7, <2>8, <1>NodeClaims, <1>NodeInv DEF NodeStep

  \* refreshRegistration goes on with the registration of the state file, or gives it up.
  <1>RefreshInv.
    ASSUME NEW n \in Nodes, refreshRegistration(n)
    PROVE  MeshInv' /\ UNCHANGED cloud
    <2> USE <1>RefreshInv
    <2> DEFINE s == [fl[n] EXCEPT !.pc = "enroll"]
               t == [fl[n] EXCEPT !.pc = "lease", !.ip = file[n].ip]
    <2>1. /\ fl[n].pc = "refresh" /\ FrameFl /\ file' = file /\ regs' = regs /\ UNCHANGED cloud
          /\ (UNCHANGED count \/ Bump("faults"))
      BY DEF refreshRegistration, FrameFl, cloud
    <2>2. \/ fl' = [fl EXCEPT ![n] = s] \/ fl' = [fl EXCEPT ![n] = t] \/ fl' = [fl EXCEPT ![n] = Off]
      BY Zenon DEF refreshRegistration, Move
    <2>3. RegsOK(regs')
      BY Zenon, <2>1 DEF MeshInv, TypeInv, RegsOK
    <2>4. file[n] \in Claim /\ file[n] # None /\ file[n].conn = fl[n].creds
      BY Zenon, <2>1, <1>FlFacts DEF MeshInv, ClaimInv, Loaded
    <2>5. file[n] = Pair(fl[n].creds, file[n].ip) /\ file[n].ip \in Nat
      BY <2>4 DEF Claim, Pair
    <2>6. /\ s \in Process /\ s.pc = "enroll" /\ s.creds = fl[n].creds
          /\ t \in Process /\ t.pc = "lease" /\ t.creds = fl[n].creds /\ t.ip = file[n].ip
      BY Zenon, <2>5, <1>FlFacts DEF Process, Pcs
    <2> HIDE DEF s, t
    <2>7. /\ "enroll" # "supersede" /\ "enroll" # "refresh" /\ "enroll" \notin Holding /\ "refresh" # "down"
          /\ "lease" # "supersede" /\ "lease" # "refresh"
      BY DEF Holding
    <2>8. CASE fl' = [fl EXCEPT ![n] = Off]
      <3>1. NodeStep(n) /\ fl'[n] = Off /\ Notes(n)' = Notes(n) /\ Advert(n)' = Advert(n)
        BY Zenon, <2>1, <2>3, <2>8, OffFacts, <1>FlFrame, Uncounted
      <3> QED BY Zenon, <2>1, <3>1, <1>OffInv
    <2>9. CASE fl' = [fl EXCEPT ![n] = s]
      <3>1. NodeStep(n) /\ fl'[n] = s /\ Notes(n)' = Notes(n) /\ Advert(n)' = Advert(n)
        BY Zenon, <2>1, <2>3, <2>6, <2>9, <1>FlFrame, Uncounted
      <3>2. Loaded(n)' /\ Drafts(n)' = {}
        BY Zenon, <2>6, <2>7, <3>1 DEF Loaded, Drafts
      <3>3. Claims(n)' \subseteq Claims(n)
        BY Zenon, <2>1, <3>1, <3>2 DEF Claims
      <3>4. FlMoves(n)
        BY Zenon, <2>1, <2>6, <2>7, <3>1 DEF FlMoves
      <3> QED BY Zenon, <2>1, <3>1, <3>2, <3>3, <3>4, <1>NodeClaims, <1>NodeInv
    <2>10. CASE fl' = [fl EXCEPT ![n] = t]
      <3>1. NodeStep(n) /\ fl'[n] = t /\ Notes(n)' = Notes(n) /\ Advert(n)' = Advert(n)
        BY Zenon, <2>1, <2>3, <2>6, <2>10, <1>FlFrame, Uncounted
      <3>2. Loaded(n)'
        BY Zenon, <2>6, <2>7, <3>1 DEF Loaded
      <3>3. Drafts(n)' \subseteq {file[n]}
        BY Zenon, <2>5, <2>6, <3>1 DEF Drafts
      <3>4. Claims(n)' \subseteq Claims(n)
        BY Zenon, <2>1, <2>4, <3>1, <3>3 DEF Claims
      <3>5. FlMoves(n)
        BY Zenon, <2>1, <2>6, <2>7, <3>1 DEF FlMoves
      <3> QED BY Zenon, <2>1, <3>1, <3>2, <3>4, <3>5, <1>NodeClaims, <1>NodeInv
    <2> QED BY Zenon, <2>1, <2>2, <2>8, <2>9, <2>10

  \* A new registration has an address that nobody holds.
  <1>NewClaim.
    ASSUME NEW n \in Nodes, NodeStep(n), count.regs < MaxIds, count'.regs = count.regs + 1,
           Loaded(n)', NEW e, e.ip = count.regs + 1, Claims(n)' \subseteq Claims(n) \cup {e}
    PROVE  ClaimInv'
    <2> USE <1>NewClaim
    <2>1. /\ e.ip \in IpRange' /\ e.ip \notin IpRange
      BY MeshOperatorAssumption DEF MeshInv, TypeInv, IpRange
    <2>2. IpRange \subseteq IpRange'
      BY Zenon, IpRangeGrows DEF MeshInv, NodeStep
    <2>3. ASSUME NEW m \in Nodes
          PROVE  Loaded(m)' /\ \A a \in Claims(m)' : a \in Claims(m) \/ (m = n /\ a = e)
      <3>1. CASE m = n
        BY Zenon, <3>1
      <3>2. CASE m # n
        BY Zenon, <3>2, SameNode DEF NodeStep
      <3> QED BY Zenon, <3>1, <3>2
    <2>4. \A m \in Nodes : \A a \in Claims(m) : a.ip \in IpRange /\ a.ip # e.ip
      BY Zenon, <2>1 DEF MeshInv, ClaimInv
    <2>5. ASSUME NEW m \in Nodes, NEW a \in Claims(m)' PROVE a.ip \in IpRange'
      BY Zenon, <2>1, <2>2, <2>3, <2>4
    <2>6. ASSUME NEW m \in Nodes, NEW k \in Nodes, NEW a \in Claims(m)', NEW b \in Claims(k)', a.ip = b.ip
          PROVE  m = k /\ a = b
      <3>1. (a \in Claims(m) \/ (m = n /\ a = e)) /\ (b \in Claims(k) \/ (k = n /\ b = e))
        BY Zenon, <2>3
      <3>2. CASE a \in Claims(m) /\ b \in Claims(k)
        BY Zenon, <2>6, <3>2 DEF MeshInv, ClaimInv
      <3> QED BY Zenon, <2>4, <2>6, <3>1, <3>2
    <2> QED BY Zenon, <2>3, <2>5, <2>6 DEF ClaimInv

  \* Enroll: the flanneld holds a registration that is new.
  <1>EnrollInv.
    ASSUME NEW n \in Nodes, Enroll(n)
    PROVE  MeshInv' /\ regs \subseteq regs' /\ op' = op /\ conns' = conns /\ routes' = routes
    <2> USE <1>EnrollInv
    <2> DEFINE i == count.regs + 1
               s == [fl[n] EXCEPT !.pc = "save", !.ip = i]
               g == [ip |-> i, name |-> ConnectorName(Cluster, n), old |-> FALSE]
    <2>1. fl[n].pc = "enroll" /\ FrameFl /\ file' = file
      BY DEF Enroll
    <2>2. \/ fl' = [fl EXCEPT ![n] = Off] /\ UNCHANGED <<regs, count>>
          \/ /\ count.regs < MaxIds /\ regs' = regs \cup {g}
             /\ \/ fl' = [fl EXCEPT ![n] = s] /\ Bump("regs")
                \/ /\ fl' = [fl EXCEPT ![n] = Off]
                   /\ count' = [count EXCEPT !.regs = @ + 1, !.faults = @ + 1]
      BY Zenon DEF Enroll, Move
    <2>3. i \in Nat /\ count.regs <= i
      BY DEF MeshInv, TypeInv
    <2>4. DOMAIN g = {"ip", "name", "old"}
      OBVIOUS
    <2> HIDE DEF g
    <2>5. RegsOK(regs) /\ RegsOK(regs \cup {g})
      BY Zenon, <2>4 DEF MeshInv, TypeInv, RegsOK
    <2>6. CASE fl' = [fl EXCEPT ![n] = Off] /\ UNCHANGED <<regs, count>>
      <3>1. regs' = regs /\ UNCHANGED count
        BY Zenon, <2>6
      <3>2. NodeStep(n) /\ fl'[n] = Off /\ Notes(n)' = Notes(n) /\ Advert(n)' = Advert(n)
        BY Zenon, <2>1, <2>5, <2>6, <3>1, OffFacts, <1>FlFrame, Uncounted
      <3> QED BY Zenon, <2>1, <3>1, <3>2, <1>OffInv DEF NodeStep
    <2>7. ASSUME count.regs < MaxIds, regs' = regs \cup {g}, fl' = [fl EXCEPT ![n] = Off],
                 count' = [count EXCEPT !.regs = @ + 1, !.faults = @ + 1]
          PROVE  MeshInv' /\ NodeStep(n)
      <3>1. Counts(count') /\ count'.regs = i /\ count'.conns = count.conns
        BY Zenon, <2>7, CountFacts DEF MeshInv
      <3>2. NodeStep(n) /\ fl'[n] = Off /\ Notes(n)' = Notes(n) /\ Advert(n)' = Advert(n)
        BY Zenon, <2>1, <2>3, <2>5, <2>7, <3>1, OffFacts, <1>FlFrame
      <3> QED BY Zenon, <2>1, <3>2, <1>OffInv
    <2>8. ASSUME count.regs < MaxIds, regs' = regs \cup {g}, fl' = [fl EXCEPT ![n] = s], Bump("regs")
          PROVE  MeshInv' /\ NodeStep(n)
      <3>1. Counts(count') /\ count'.regs = i /\ count'.conns = count.conns
        BY Zenon, <2>8, CountFacts DEF MeshInv
      <3>2. s \in Process /\ s.pc = "save" /\ s.creds = fl[n].creds /\ s.ip = i
        BY Zenon, <2>3, <1>FlFacts DEF Process, Pcs
      <3> HIDE DEF s
      <3>3. NodeStep(n) /\ fl'[n] = s /\ Notes(n)' = Notes(n) /\ Advert(n)' = Advert(n)
        BY Zenon, <2>1, <2>3, <2>5, <2>8, <3>1, <3>2, <1>FlFrame
      <3> DEFINE e == Pair(fl[n].creds, i)
      <3>4. e.ip = i
        BY DEF Pair
      <3>5. Drafts(n)' \subseteq {e}
        BY Zenon, <3>2, <3>3 DEF Drafts
      <3> HIDE DEF e
      <3>6. Claims(n)' \subseteq Claims(n) \cup {e}
        BY Zenon, <2>1, <3>3, <3>5 DEF Claims
      <3>7. "save" # "supersede" /\ "save" # "refresh" /\ "enroll" # "down"
        OBVIOUS
      <3>8. Loaded(n)' /\ FlMoves(n)
        BY Zenon, <2>1, <3>2, <3>3, <3>7 DEF Loaded, FlMoves
      <3>9. ClaimInv'
        BY Zenon, <2>8, <3>1, <3>3, <3>4, <3>6, <3>8, <1>NewClaim
      <3> QED BY Zenon, <3>3, <3>8, <3>9, <1>NodeInv
    <2> QED BY Zenon, <2>2, <2>6, <2>7, <2>8 DEF NodeStep

  \* writePrivateJSON: the state file holds what the flanneld holds.
  <1>WriteInv.
    ASSUME NEW n \in Nodes, writePrivateJSON(n)
    PROVE  MeshInv' /\ UNCHANGED cloud
    <2> USE <1>WriteInv
    <2> DEFINE s == [fl[n] EXCEPT !.pc = "lease"]
               f == Pair(fl[n].creds, fl[n].ip)
    <2>1. /\ fl[n].pc = "save" /\ FrameFl /\ regs' = regs /\ UNCHANGED cloud
          /\ (UNCHANGED count \/ Bump("faults"))
      BY DEF writePrivateJSON, FrameFl, cloud
    <2>2. \/ file' = [file EXCEPT ![n] = f] /\ fl' = [fl EXCEPT ![n] = s]
          \/ file' = file /\ fl' = [fl EXCEPT ![n] = Off]
      BY Zenon DEF writePrivateJSON, Move, Pair
    <2>3. RegsOK(regs')
      BY Zenon, <2>1 DEF MeshInv, TypeInv, RegsOK
    <2>4. f \in Claim
      BY <1>FlFacts DEF Claim, Pair
    <2>5. s \in Process /\ s.pc = "lease" /\ s.creds = fl[n].creds /\ s.ip = fl[n].ip
      BY <1>FlFacts DEF Process, Pcs
    <2>6. "save" \in Holding /\ "lease" # "supersede" /\ "lease" # "refresh" /\ "save" # "down"
      BY DEF Holding
    <2>7. f \in Drafts(n)
      BY Zenon, <2>1, <2>6 DEF Drafts
    <2> HIDE DEF s, f
    <2>8. CASE file' = file /\ fl' = [fl EXCEPT ![n] = Off]
      <3>1. NodeStep(n) /\ fl'[n] = Off /\ Notes(n)' = Notes(n) /\ Advert(n)' = Advert(n)
        BY Zenon, <2>1, <2>3, <2>8, OffFacts, <1>FlFrame, Uncounted
      <3> QED BY Zenon, <2>1, <2>8, <3>1, <1>OffInv
    <2>9. CASE file' = [file EXCEPT ![n] = f] /\ fl' = [fl EXCEPT ![n] = s]
      <3>1. NodeStep(n) /\ fl'[n] = s /\ Notes(n)' = Notes(n) /\ Advert(n)' = Advert(n)
        BY Zenon, <2>1, <2>3, <2>4, <2>5, <2>9, <1>FlFrame, Uncounted
      <3>2. file'[n] = f
        BY Zenon, <2>9 DEF MeshInv, TypeInv
      <3>3. Drafts(n)' \subseteq {f}
        BY Zenon, <2>5, <3>1 DEF Drafts, f
      <3>4. Claims(n)' \subseteq Claims(n)
        BY Zenon, <2>7, <3>1, <3>2, <3>3 DEF Claims
      <3>5. Loaded(n)' /\ FlMoves(n)
        BY Zenon, <2>1, <2>5, <2>6, <3>1 DEF Loaded, FlMoves
      <3> QED BY Zenon, <2>1, <3>1, <3>4, <3>5, <1>NodeClaims, <1>NodeInv
    <2> QED BY Zenon, <2>1, <2>2, <2>8, <2>9

  \* The lease publishes the flanneld's own registration and connector.
  <1>PublishInv.
    ASSUME NEW n \in Nodes, Publish(n)
    PROVE  MeshInv' /\ UNCHANGED cloud
    <2> USE <1>PublishInv
    <2> DEFINE s == [fl[n] EXCEPT !.pc = "run"]
               f == Pair(fl[n].creds, fl[n].ip)
    <2>1. /\ fl[n].pc = "lease" /\ ann' = [ann EXCEPT ![n] = f] /\ fl' = [fl EXCEPT ![n] = s]
          /\ up' = up /\ secret' = secret /\ file' = file /\ UNCHANGED count /\ UNCHANGED cloud /\ op' = op
      BY DEF Publish, Move, Pair
    <2>2. regs' = regs /\ conns' = conns /\ routes' = routes
      BY <2>1 DEF cloud
    <2>3. f \in Claim /\ f.conn = fl[n].creds
      BY <1>FlFacts DEF Claim, Pair
    <2>4. s \in Process /\ s.pc = "run" /\ s.creds = fl[n].creds /\ s.ip = fl[n].ip
      BY <1>FlFacts DEF Process, Pcs
    <2>5. "lease" \in Holding /\ "run" # "supersede" /\ "run" # "refresh" /\ "lease" # "down"
      BY DEF Holding
    <2>6. f \in Drafts(n)
      BY Zenon, <2>1, <2>5 DEF Drafts
    <2> HIDE DEF s, f
    <2>7. /\ fl' \in [Nodes -> Process] /\ fl'[n] = s /\ ann' \in [Nodes -> {None} \cup Claim] /\ ann'[n] = f
          /\ \A m \in Nodes : m # n => fl'[m] = fl[m] /\ ann'[m] = ann[m]
      <3>1. fl \in [Nodes -> Process] /\ ann \in [Nodes -> {None} \cup Claim]
        BY Zenon DEF MeshInv, TypeInv, Process
      <3> QED BY Zenon, <2>1, <2>3, <2>4, <3>1
    <2>8. NodeStep(n)
      BY Zenon, <2>1, <2>2, <2>7, Uncounted DEF NodeStep, MeshInv, TypeInv, RegsOK
    <2>9. Notes(n)' \subseteq Notes(n) \cup {f}
      BY Zenon, <2>1, <2>7 DEF Notes
    <2>10. Advert(n)' \subseteq Advert(n) \cup {fl[n].creds}
      BY Zenon, <2>3, <2>9 DEF Advert
    <2>11. Drafts(n)' \subseteq {f}
      BY Zenon, <2>4, <2>7 DEF Drafts, f
    <2>12. Claims(n)' \subseteq Claims(n)
      BY Zenon, <2>1, <2>6, <2>9, <2>11 DEF Claims
    <2>13. Loaded(n)' /\ FlMoves(n)
      BY Zenon, <2>1, <2>4, <2>5, <2>7, <2>10 DEF Loaded, FlMoves
    <2> QED BY Zenon, <2>1, <2>8, <2>12, <2>13, <1>NodeClaims, <1>NodeInv

  \* A crash, or the loss of the state file.
  <1>CrashInv.
    ASSUME NEW n \in Nodes, Crash(n) \/ LoseFile(n)
    PROVE  MeshInv' /\ UNCHANGED cloud
    <2> USE <1>CrashInv
    <2>1. /\ fl' = [fl EXCEPT ![n] = Off] /\ FrameFl /\ regs' = regs /\ UNCHANGED cloud /\ Bump("faults")
          /\ (file' = file \/ file' = [file EXCEPT ![n] = None])
      BY DEF Crash, LoseFile, Move, FrameFl, cloud
    <2>2. RegsOK(regs')
      BY Zenon, <2>1 DEF MeshInv, TypeInv, RegsOK
    <2>3. NodeStep(n) /\ fl'[n] = Off /\ Notes(n)' = Notes(n)
      BY Zenon, <2>1, <2>2, OffFacts, <1>FlFrame, Uncounted
    <2>4. file'[n] \in {file[n], None}
      BY Zenon, <2>1 DEF MeshInv, TypeInv
    <2> QED BY Zenon, <2>1, <2>3, <2>4, <1>OffInv

  \* A node is deleted or registered anew.
  <1>NodeChangeInv.
    ASSUME NEW n \in Nodes, NodeChange(n)
    PROVE  MeshInv' /\ UNCHANGED cloud
    <2> USE <1>NodeChangeInv
    <2> DEFINE u == IF up[n] = 0 THEN count.faults + 2 ELSE 0
    <2>1. /\ fl' = [fl EXCEPT ![n] = Off] /\ up' = [up EXCEPT ![n] = u] /\ ann' = [ann EXCEPT ![n] = None]
          /\ Bump("faults") /\ secret' = secret /\ UNCHANGED cloud /\ op' = op /\ file' = file
      BY DEF NodeChange, Move
    <2>2. regs' = regs /\ conns' = conns /\ routes' = routes
      BY <2>1 DEF cloud
    <2>3. u \in Nat
      BY DEF MeshInv, TypeInv
    <2> HIDE DEF u
    <2>4. /\ fl' \in [Nodes -> Process] /\ fl'[n] = Off /\ ann' \in [Nodes -> {None} \cup Claim]
          /\ ann'[n] = None /\ up' \in [Nodes -> Nat]
          /\ \A m \in Nodes : m # n => fl'[m] = fl[m] /\ ann'[m] = ann[m]
      <3>1. /\ fl \in [Nodes -> Process] /\ ann \in [Nodes -> {None} \cup Claim]
            /\ up \in [Nodes -> Nat]
        BY Zenon DEF MeshInv, TypeInv, Process
      <3> QED BY Zenon, <2>1, <2>3, <3>1, OffFacts
    <2>5. NodeStep(n)
      BY Zenon, <2>1, <2>2, <2>4, Uncounted DEF NodeStep, MeshInv, TypeInv, RegsOK
    <2>6. Notes(n)' \subseteq Notes(n)
      BY Zenon, <2>1, <2>4 DEF Notes
    <2> QED BY Zenon, <2>1, <2>4, <2>5, <2>6, <1>OffInv

  <1>1. ASSUME NEW n \in Nodes, deleteRegistration(n) PROVE MeshInv' /\ TakesOwn(n) /\ Deletes
    BY Zenon, <1>1, <1>DeregisterInv DEF TakesOwn, Deletes
  <1>2. ASSUME NEW n \in Nodes, Enroll(n) PROVE MeshInv' /\ Grows
    BY Zenon, <1>2, <1>EnrollInv DEF Grows
  <1>3. ASSUME NEW n \in Nodes, Flanneld(n) PROVE MeshInv' /\ (Grows \/ Deletes)
    BY Zenon, <1>1, <1>2, <1>3, <1>WaitInv, <1>RefreshInv, <1>WriteInv, <1>PublishInv, CloudGrows DEF Flanneld
  <1>4. ASSUME NEW n \in Nodes, Crash(n) \/ LoseFile(n) \/ NodeChange(n) PROVE MeshInv' /\ Grows
    BY Zenon, <1>4, <1>CrashInv, <1>NodeChangeInv, CloudGrows
  <1> QED BY Zenon, <1>1, <1>3, <1>4

-----------------------------------------------------------------------------
(* The others.                                                             *)

\* Registrations grow old, and none goes.
GrowOld ==
  /\ conns' = conns /\ routes' = routes /\ op.pc = "idle"
  /\ \A r \in regs : \E q \in regs' : q.ip = r.ip

\* Every fault of the others, the passing of time, and a step that changes nothing.
LEMMA OtherStep ==
  ASSUME MeshInv
  PROVE  /\ Faults \/ Time \/ UNCHANGED vars => MeshInv' /\ (Grows \/ Deletes)
         /\ Age => GrowOld
  \* Nothing of a node changes but its Secret, which may be collected.
  <1>QuietInv.
    ASSUME op' = op, up' = up, ann' = ann, fl' = fl, file' = file, RegsOK(regs'),
           IdsOf(conns) \subseteq IdsOf(conns'), Ages(conns, count, conns', count'), Counts(count'),
           count.regs <= count'.regs, secret' \in [Nodes -> {None} \cup Creds],
           \A n \in Nodes : secret'[n] = secret[n] \/ secret'[n] = None
    PROVE  MeshInv'
    <2> USE <1>QuietInv
    <2>1. TypeInv'
      BY Zenon DEF MeshInv, TypeInv, Counts, RegsOK
    <2>2. OpInv'
      <3>1. OpOK(op, conns, secret)
        BY Zenon, OpParts DEF MeshInv
      <3>2. OpOK(op, conns', secret')
        BY Zenon, <3>1, ServesFrame
      <3> QED BY Zenon, <3>2 DEF OpOK, OpInv
    <2>3. ASSUME NEW n \in Nodes PROVE Loaded(n)' /\ Claims(n)' = Claims(n) /\ FlMoves(n)
      BY Zenon, SameNode
    <2>4. ClaimInv'
      BY Zenon, <2>3, ClaimsShrink DEF MeshInv
    <2>5. HoldInv' /\ \A n \in Nodes : Known(n)' \subseteq Known(n)
      BY Zenon, <2>3, HoldStep DEF MeshInv
    <2>6. FindInv'
      BY Zenon, <2>5, FindStep DEF MeshInv
    <2> QED BY Zenon, <2>1, <2>2, <2>4, <2>5, <2>6 DEF MeshInv

  \* Kubernetes collects the Secret of a node that is gone.
  <1>SecretCollectedInv.
    ASSUME NEW n \in Nodes, SecretCollected(n)
    PROVE  MeshInv' /\ UNCHANGED cloud
    <2> USE <1>SecretCollectedInv
    <2>1. /\ secret' = [secret EXCEPT ![n] = None] /\ UNCHANGED count /\ UNCHANGED cloud /\ op' = op
          /\ up' = up /\ ann' = ann /\ fl' = fl /\ file' = file /\ regs' = regs /\ conns' = conns
      BY DEF SecretCollected, cloud, node
    <2>2. /\ secret' \in [Nodes -> {None} \cup Creds]
          /\ \A m \in Nodes : secret'[m] = secret[m] \/ secret'[m] = None
      BY Zenon, <2>1 DEF MeshInv, TypeInv
    <2>3. Ages(conns, count, conns', count') /\ Counts(count') /\ count.regs <= count'.regs
      BY Zenon, <2>1, AgesSame, Uncounted DEF MeshInv
    <2>4. RegsOK(regs') /\ IdsOf(conns) \subseteq IdsOf(conns')
      BY Zenon, <2>1 DEF MeshInv, TypeInv, RegsOK
    <2> QED BY Zenon, <2>1, <2>2, <2>3, <2>4, <1>QuietInv

  \* A creation the operator gave up on still takes place.
  <1>LateCreateInv.
    ASSUME LateCreate
    PROVE  MeshInv' /\ conns \subseteq conns' /\ routes' = routes /\ regs' = regs
    <2> USE <1>LateCreateInv
    <2>1. /\ count.conns < MaxIds /\ Bump("conns") /\ op' = op /\ up' = up /\ ann' = ann /\ secret' = secret
          /\ fl' = fl /\ file' = file /\ regs' = regs /\ routes' = routes
      BY DEF LateCreate, kube, node
    <2>2. PICK n \in late : conns' = conns \cup {New(n)}
      BY Zenon DEF LateCreate
    <2>3. Counts(count') /\ count'.regs = count.regs /\ count'.conns = count.conns + 1
      BY Zenon, <2>1, CountFacts DEF MeshInv
    <2>4. count.regs <= count'.regs /\ count'.conns <= MaxIds
      BY <2>3 DEF Counts
    <2>5. Ages(conns, count, conns', count')
      BY Zenon, <2>2, <2>3, <2>4 DEF Ages, New
    <2>6. RegsOK(regs') /\ IdsOf(conns) \subseteq IdsOf(conns') /\ secret' \in [Nodes -> {None} \cup Creds]
      BY Zenon, <2>1, <2>2 DEF MeshInv, TypeInv, RegsOK, IdsOf
    <2>7. MeshInv'
      BY Zenon, <2>1, <2>3, <2>4, <2>5, <2>6, <1>QuietInv
    <2> QED BY Zenon, <2>1, <2>2, <2>7

  \* Steps that touch nothing the invariant is about.
  <1>StillInv.
    ASSUME UNCHANGED <<up, ann, secret, conns, op, node>>, RegsOK(regs'),
           UNCHANGED count \/ Bump("faults")
    PROVE  MeshInv'
    <2> USE <1>StillInv
    <2>1. /\ op' = op /\ up' = up /\ ann' = ann /\ secret' = secret /\ fl' = fl /\ file' = file
          /\ conns' = conns
      BY DEF node
    <2>2. Counts(count') /\ count'.conns = count.conns /\ count.regs <= count'.regs
      BY Zenon, Uncounted
    <2>3. Ages(conns, count, conns', count')
      BY Zenon, <2>1, <2>2, AgesSame DEF MeshInv
    <2>4. IdsOf(conns) \subseteq IdsOf(conns') /\ secret' \in [Nodes -> {None} \cup Creds]
      BY Zenon, <2>1 DEF MeshInv, TypeInv
    <2> QED BY Zenon, <2>1, <2>2, <2>3, <2>4, <1>QuietInv

  \* The shape of a registration.
  <1>RegsFacts.
    MeshInv => RegsOK(regs)
    BY Zenon DEF MeshInv, TypeInv, RegsOK

  \* Somebody edits the ConfigMap; the period of the collection passes.
  <1>EditHostsInv.
    ASSUME EditHosts \/ GCPeriod
    PROVE  MeshInv' /\ UNCHANGED cloud
    <2> USE <1>EditHostsInv
    <2>1. /\ UNCHANGED <<up, ann, secret, conns, op, node>> /\ UNCHANGED cloud /\ regs' = regs
          /\ (UNCHANGED count \/ Bump("faults"))
      BY DEF EditHosts, GCPeriod, kube, cloud
    <2> QED BY Zenon, <2>1, <1>RegsFacts, <1>StillInv

  \* Registrations grow old, between two reconciles; none goes.
  <1>AgeInv.
    ASSUME Age
    PROVE  /\ MeshInv' /\ conns' = conns /\ routes' = routes /\ op.pc = "idle"
           /\ \A r \in regs : \E q \in regs' : q.ip = r.ip
    <2> USE <1>AgeInv
    <2>1. /\ UNCHANGED <<up, ann, secret, conns, op, node>> /\ UNCHANGED count /\ conns' = conns
          /\ routes' = routes /\ op.pc = "idle" /\ regs' = {[r EXCEPT !.old = TRUE] : r \in regs}
      BY DEF Age, kube
    <2>2. ASSUME NEW r \in regs
          PROVE  DOMAIN [r EXCEPT !.old = TRUE] = {"ip", "name", "old"} /\ [r EXCEPT !.old = TRUE].ip = r.ip
      <3>1. DOMAIN r = {"ip", "name", "old"}
        BY Zenon, <1>RegsFacts DEF RegsOK
      <3> QED BY <3>1
    <2>3. RegsOK(regs') /\ \A r \in regs : \E q \in regs' : q.ip = r.ip
      BY Zenon, <2>1, <2>2 DEF RegsOK
    <2> QED BY Zenon, <2>1, <2>3, <1>StillInv

  \* A step that changes nothing.
  <1>Stutter.
    ASSUME UNCHANGED vars
    PROVE  MeshInv' /\ UNCHANGED cloud /\ op' = op
    <2> USE <1>Stutter
    <2>1. /\ UNCHANGED <<up, ann, secret, conns, op, node>> /\ UNCHANGED cloud /\ regs' = regs
          /\ UNCHANGED count /\ op' = op
      BY DEF vars, kube, cloud
    <2> QED BY Zenon, <2>1, <1>RegsFacts, <1>StillInv

  <1>1. OperatorCrash => MeshInv' /\ Grows
    BY Zenon, OpFrames, StageInv, CloudGrows DEF MeshInv
  <1>2. LateCreate => MeshInv' /\ Grows
    BY Zenon, <1>LateCreateInv DEF Grows
  <1>3. EditHosts \/ GCPeriod => MeshInv' /\ Grows
    BY Zenon, <1>EditHostsInv, CloudGrows
  <1>4. ASSUME NEW n \in Nodes, Crash(n) \/ LoseFile(n) \/ NodeChange(n) PROVE MeshInv' /\ Grows
    BY Zenon, <1>4, FlanneldStep
  <1>5. ASSUME NEW n \in Nodes, SecretCollected(n) PROVE MeshInv' /\ Grows
    BY Zenon, <1>5, <1>SecretCollectedInv, CloudGrows
  <1>6. Age => MeshInv' /\ Deletes /\ GrowOld
    BY Zenon, <1>AgeInv DEF Deletes, GrowOld
  <1>7. UNCHANGED vars => MeshInv' /\ Grows
    BY Zenon, <1>Stutter, CloudGrows
  <1>8. Faults \/ Time => MeshInv' /\ (Grows \/ Deletes)
    BY Zenon, <1>1, <1>2, <1>3, <1>4, <1>5, <1>6 DEF Faults, Time
  <1> QED BY Zenon, <1>6, <1>7, <1>8

-----------------------------------------------------------------------------
(* The initial states.                                                     *)

\* The states the operator may be started in.
LEMMA InitInv ==
  Init => MeshInv
  <1> SUFFICES ASSUME Init PROVE MeshInv
    OBVIOUS
  <1> DEFINE id == MaxIds + 1
             f == [conn |-> id, ip |-> id]
             a == [id |-> 0, name |-> ConnectorName(OtherCluster, "other")]
             b == [id |-> MaxIds + 2, name |-> ConnectorName(Cluster, "gone")]
             r == [ip |-> 0, name |-> ConnectorName(OtherCluster, "other"), old |-> TRUE]
             q(n) == [ip |-> id, name |-> ConnectorName(Cluster, n), old |-> TRUE]
  <1>1. /\ up \in [Nodes -> {0, 1}] /\ ann = [n \in Nodes |-> None] /\ secret = [n \in Nodes |-> None]
        /\ conns = {a, b} /\ op = Idle /\ fl = [n \in Nodes |-> Off]
        /\ count = [conns |-> 0, regs |-> 0, faults |-> 0]
    BY Zenon DEF Init
  <1>2. PICK v \in Nodes \cup {None} :
          /\ file = [n \in Nodes |-> IF n = v THEN f ELSE None]
          /\ regs = {r} \cup {q(n) : n \in {v} \ {None}}
    BY Zenon DEF Init
  <1>3. count \in [conns : Nat, regs : Nat, faults : Nat] /\ count.conns = 0 /\ count.regs = 0
    BY <1>1
  <1>4. MaxIds \in Nat /\ 0 <= MaxIds /\ id \in Nat
    BY MeshOperatorAssumption
  <1>5. f \in Claim /\ f.ip = id
    BY <1>4 DEF Claim
  <1>6. RegsOK(regs)
    <2>1. DOMAIN r = {"ip", "name", "old"} /\ \A n : DOMAIN q(n) = {"ip", "name", "old"}
      OBVIOUS
    <2> HIDE DEF r, q
    <2> QED BY Zenon, <1>2, <2>1 DEF RegsOK
  <1>7. a.id = 0 /\ b.id = MaxIds + 2 /\ a.id # b.id
    BY <1>4
  <1>8. id \in IpRange
    BY DEF IpRange
  <1>9. 0 \in IdRange(count) /\ MaxIds + 2 \in IdRange(count)
    BY <1>3 DEF IdRange
  <1> HIDE DEF id, f, a, b, r, q
  <1>10. Off.pc = "down" /\ "down" \notin Holding /\ "down" # "supersede" /\ "down" # "refresh"
         /\ Off \in Process
    BY OffFacts DEF Holding
  <1>11. ASSUME NEW n \in Nodes
         PROVE  /\ ann[n] = None /\ secret[n] = None /\ fl[n] = Off
                /\ file[n] = None \/ (n = v /\ file[n] = f)
    BY Zenon, <1>1, <1>2
  <1>12. TypeInv
    <2>1. up \in [Nodes -> Nat]
      BY <1>1
    <2>2. /\ ann \in [Nodes -> {None} \cup Claim] /\ secret \in [Nodes -> {None} \cup Creds]
          /\ file \in [Nodes -> {None} \cup Claim] /\ fl \in [Nodes -> Process]
      BY Zenon, <1>1, <1>2, <1>5, <1>10
    <2>3. IsRun(op) /\ ListOK(op.snap)
      BY Zenon, <1>1, IdleServes
    <2> QED BY Zenon, <1>3, <1>4, <1>6, <2>1, <2>2, <2>3 DEF TypeInv, Process, RegsOK
  <1>13. OpInv
    BY Zenon, <1>1, IdleServes DEF OpInv
  <1>14. ASSUME NEW n \in Nodes PROVE Notes(n) = {} /\ Drafts(n) = {} /\ Loaded(n)
    <2>1. Notes(n) = {}
      BY Zenon, <1>1, <1>11, IdleFacts DEF Notes
    <2>2. Drafts(n) = {}
      BY Zenon, <1>10, <1>11 DEF Drafts
    <2>3. Loaded(n)
      BY Zenon, <1>10, <1>11 DEF Loaded
    <2> QED BY Zenon, <2>1, <2>2, <2>3
  <1>15. ASSUME NEW n \in Nodes, NEW c \in Claims(n) PROVE n = v /\ c = f
    BY Zenon, <1>11, <1>14 DEF Claims
  <1>16. ClaimInv
    BY Zenon, <1>5, <1>8, <1>14, <1>15 DEF ClaimInv
  <1>17. ASSUME NEW n \in Nodes PROVE Known(n) = {} /\ Held(n) = {} /\ Advert(n) = {}
    BY Zenon, <1>10, <1>11, <1>14 DEF Known, Held, Advert
  <1>18. HoldInv
    <2>1. IdsOf(conns) \subseteq IdRange(count)
      BY Zenon, <1>1, <1>7, <1>9 DEF IdsOf
    <2>2. IdsOnce(conns)
      BY Zenon, <1>1, <1>7 DEF IdsOnce
    <2> QED BY Zenon, <1>17, <2>1, <2>2 DEF HoldInv
  <1>19. "idle" \notin Busy
    BY DEF Busy
  <1>20. FindInv
    BY Zenon, <1>1, <1>19, IdleFacts DEF FindInv, Busy
  <1> QED BY Zenon, <1>12, <1>13, <1>16, <1>18, <1>20 DEF MeshInv

-----------------------------------------------------------------------------
(* The steps.                                                              *)

\* The invariant is inductive, and only the five deleting steps delete.
LEMMA NextInv ==
  ASSUME MeshInv, [Next]_vars
  PROVE  MeshInv' /\ (Grows \/ Deletes)
  <1>1. CASE UNCHANGED vars
    BY Zenon, <1>1, OtherStep
  <1>2. CASE Next
    BY Zenon, <1>2, ReconcileStep, FlanneldStep, OtherStep DEF Next
  <1> QED BY Zenon, <1>1, <1>2

\* Every connector id that a node knows, from its Secret, its credentials or what it has
\* advertised, is of a connector made for that node; of these at most the last is there.
\* Every Mesh IP is held by one node. And a reconcile that gets to the collection keeps
\* what every node of its list stands for.
THEOREM MeshInvariant == Spec => []MeshInv
  <1>1. MeshInv /\ [Next]_vars => MeshInv'
    BY Zenon, NextInv
  <1> QED BY InitInv, <1>1, PTL DEF Spec

-----------------------------------------------------------------------------
(* The action properties.                                                  *)

\* A flanneld that gives up the registration of its state file deletes that one and no
\* other node's.
LEMMA OwnRegistration ==
  ASSUME MeshInv, NEW m \in Nodes, deleteRegistration(m), NEW n \in Nodes, NEW a \in Claims(n),
         NEW r \in regs, r \notin regs', r.ip = a.ip
  PROVE  m = n /\ a = file[m] /\ fl[m].pc = "supersede" /\ a.conn # fl[m].creds
  <1>1. fl[m].pc = "supersede" /\ r.ip = file[m].ip
    BY Zenon, FlanneldStep DEF TakesOwn
  <1>2. file[m] # None /\ file[m].conn # fl[m].creds
    BY Zenon, <1>1 DEF MeshInv, ClaimInv, Loaded
  <1>3. file[m] \in Claims(m) /\ file[m].ip = a.ip
    BY Zenon, <1>1, <1>2 DEF Claims
  <1>4. m = n /\ file[m] = a
    BY Zenon, <1>3 DEF MeshInv, ClaimInv
  <1> QED BY Zenon, <1>1, <1>2, <1>4

KeptStep(n) ==
  LET claim == op.snap[n].ann
  IN  /\ \A c \in conns \ conns' : Secret([op EXCEPT !.cur = n, !.id = c.id]) # secret[n]
      /\ claim # None => /\ Route(n, claim.conn) \in routes => Route(n, claim.conn) \in routes'
                         /\ op.pc = "delregs" => \A g \in regs \ regs' : g.ip # claim.ip

\* The Secret the property speaks of is that of connector i.
LEMMA SecretFields ==
  ASSUME MeshInv, NEW n \in DOMAIN op.snap, NEW c \in conns,
         Secret([op EXCEPT !.cur = n, !.id = c.id]) = secret[n]
  PROVE  secret[n] # None /\ secret[n].conn = c.id
  <1> DEFINE o == [op EXCEPT !.cur = n, !.id = c.id]
             u == op.snap[n].uid
  <1>1. IsRun(op) /\ n \in Nodes /\ u \in Nat
    BY Zenon DEF MeshInv, TypeInv, ListOK
  <1>2. o.id = c.id /\ o.cur = n /\ o.snap = op.snap
    BY <1>1 DEF IsRun, Fields
  <1>3. Secret(o) = secret[n]
    BY Zenon
  <1> HIDE DEF o
  <1>4. secret[n] = [conn |-> c.id, owner |-> u]
    BY Zenon, <1>2, <1>3 DEF Secret
  <1>5. c.id \in IdRange(count)
    BY Zenon DEF MeshInv, HoldInv, IdsOf
  <1>6. c.id \in Nat
    BY <1>5, MeshOperatorAssumption DEF IdRange, MeshInv, TypeInv
  <1> HIDE DEF u
  <1>7. secret[n] \in [conn : Nat, owner : Nat] /\ secret[n].conn = c.id
    BY <1>1, <1>4, <1>6
  <1> QED BY Zenon, <1>7, MeshOperatorAssumption

\* In a stage every node of the list has been served.
LEMMA ServedFacts ==
  ASSUME MeshInv, op.pc \in Stages, NEW n \in DOMAIN op.snap
  PROVE  Served(op, secret, n) /\ n \in Nodes
  BY Zenon, OpFacts DEF MeshInv, Serves, ListOK

\* A step that deletes nothing.
LEMMA GrowsKeeps ==
  ASSUME Grows, NEW n
  PROVE  KeptStep(n)
  BY Zenon DEF Grows, KeptStep

\* A step that deletes: what it takes is nothing that a listed node stands for.
LEMMA DeletesKeeps ==
  ASSUME MeshInv, Deletes, NEW n \in DOMAIN op.snap
  PROVE  KeptStep(n)
  <1> DEFINE claim == op.snap[n].ann
  <1>0. TypeInv /\ OpInv
    BY Zenon DEF MeshInv
  <1>1. /\ "delroutes" \in Stages /\ "delconns" \in Stages /\ "delregs" \in Stages
        /\ "delroutes" # "delregs" /\ "delconns" # "delregs" /\ "idle" # "delregs"
    BY DEF Stages
  <1>2. CASE DeleteRoute
    <2>1. /\ op.pc = "delroutes" /\ conns' = conns
          /\ \A r \in routes : r \notin routes' => r \notin op.routes
      BY Zenon, <1>0, <1>2, OpSteps DEF TakesRoutes
    <2>2. claim # None => Route(n, claim.conn) \in op.routes
      BY Zenon, <1>1, <2>1, ServedFacts DEF Served
    <2> QED BY Zenon, <1>1, <2>1, <2>2 DEF KeptStep
  <1>3. CASE DeleteConnector
    <2>1. /\ op.pc = "delconns" /\ routes' = routes
          /\ \A c \in conns : c \notin conns' => c.id \notin op.conns
      BY Zenon, <1>0, <1>3, OpSteps DEF TakesConnectors
    <2>2. secret[n] # None => secret[n].conn \in op.conns
      BY Zenon, <1>1, <2>1, ServedFacts DEF Served, SecretOf
    <2>3. \A c \in conns \ conns' : Secret([op EXCEPT !.cur = n, !.id = c.id]) # secret[n]
      <3> SUFFICES ASSUME NEW c \in conns, c \notin conns',
                          Secret([op EXCEPT !.cur = n, !.id = c.id]) = secret[n]
                   PROVE  FALSE
        BY Zenon
      <3>1. secret[n] # None /\ secret[n].conn = c.id
        BY Zenon, SecretFields
      <3> QED BY Zenon, <2>1, <2>2, <3>1
    <2> QED BY Zenon, <1>1, <2>1, <2>3 DEF KeptStep
  <1>4. CASE DeleteDeviceRegistration
    <2>1. /\ op.pc = "delregs" /\ routes' = routes /\ conns' = conns
          /\ \A r \in regs : r \notin regs' => \A p \in op.ips : p[2] # r.ip
      BY Zenon, <1>0, <1>4, OpSteps DEF TakesRegistrations
    <2>2. claim # None => <<n, claim.ip>> \in op.ips
      BY Zenon, <1>1, <2>1, ServedFacts DEF Served
    <2>3. <<n, claim.ip>>[2] = claim.ip
      OBVIOUS
    <2> HIDE DEF claim
    <2>4. claim # None => \A g \in regs \ regs' : g.ip # claim.ip
      BY Zenon, <2>1, <2>2, <2>3
    <2> QED BY Zenon, <2>1, <2>4 DEF KeptStep, claim
  <1>5. CASE Age
    BY Zenon, <1>1, <1>5, OtherStep DEF KeptStep, GrowOld
  <1>6. ASSUME NEW m \in Nodes, deleteRegistration(m) PROVE KeptStep(n)
    <2>1. conns' = conns /\ routes' = routes
      BY Zenon, <1>6, FlanneldStep DEF TakesOwn
    <2>2. ASSUME claim # None, op.pc = "delregs", NEW g \in regs, g \notin regs', g.ip = claim.ip
          PROVE  FALSE
      <3>1. /\ n \in Nodes /\ claim.conn \in op.conns
        BY Zenon, <1>1, <2>2, ServedFacts DEF Served
      <3>2. claim \in Notes(n) /\ claim \in Claims(n)
        BY Zenon, <2>2 DEF Notes, Claims
      <3>3. m = n /\ fl[n].pc = "supersede" /\ claim.conn # fl[n].creds
        <4>1. PICK a : a = claim
          OBVIOUS
        <4>2. n \in Nodes /\ a \in Claims(n) /\ g \in regs /\ g \notin regs' /\ g.ip = a.ip
          BY Zenon, <2>2, <3>1, <3>2, <4>1
        <4>3. m = n /\ a = file[m] /\ fl[m].pc = "supersede" /\ a.conn # fl[m].creds
          BY ZenonT(40), <1>6, <4>2, OwnRegistration
        <4> QED BY Zenon, <4>1, <4>3
      <3>4. claim.conn \in Advert(n)
        BY Zenon, <3>2 DEF Advert
      <3>7. "supersede" # "down"
        OBVIOUS
      <3>5. Gone(conns, claim.conn)
        BY Zenon, <3>1, <3>3, <3>4, <3>7 DEF MeshInv, HoldInv
      <3>6. claim.conn \in IdsOf(conns)
        BY Zenon, <1>0, <3>1, OpFacts
      <3> QED BY Zenon, <3>5, <3>6 DEF Gone
    <2> QED BY Zenon, <2>1, <2>2 DEF KeptStep
  <1> QED BY Zenon, <1>2, <1>3, <1>4, <1>5, <1>6 DEF Deletes

\* A reconcile deletes nothing that a node of its list stands for, whatever failed for that
\* node or for another one: neither the connector of its Secret, nor the route or the
\* registration it advertised. Nor does a flanneld that enrols again take a registration
\* away that the operator has just kept.
THEOREM ListedStay == Spec => ListedNodesKept
  <1>1. MeshInv /\ [Next]_vars => \A n \in DOMAIN op.snap : KeptStep(n)
    BY Zenon, NextInv, GrowsKeeps, DeletesKeeps
  <1>2. MeshInv /\ [Next]_vars =>
          [\A n \in DOMAIN op.snap :
             LET claim == op.snap[n].ann
             IN  /\ \A c \in conns \ conns' : Secret([op EXCEPT !.cur = n, !.id = c.id]) # secret[n]
                 /\ claim # None => /\ Route(n, claim.conn) \in routes => Route(n, claim.conn) \in routes'
                                    /\ op.pc = "delregs" => \A g \in regs \ regs' : g.ip # claim.ip]_vars
    BY Zenon, <1>1 DEF KeptStep
  <1> QED BY MeshInvariant, <1>2, PTL DEF Spec, ListedNodesKept

\* What a starting flanneld has enrolled is in no other node's claims, is too young for
\* the collection, and is not the registration of its own state file.
LEMMA EnrolmentStep ==
  ASSUME MeshInv, Grows \/ Deletes, NEW n \in Nodes, fl[n].pc \in {"save", "lease"},
         NEW r \in regs, r.ip = fl[n].ip, ~r.old
  PROVE  \E q \in regs' : q.ip = fl[n].ip
  <1>0. TypeInv /\ OpInv
    BY Zenon DEF MeshInv
  <1>1. CASE Grows
    BY Zenon, <1>1 DEF Grows
  <1>2. CASE DeleteRoute
    BY Zenon, <1>0, <1>2, OpSteps DEF TakesRoutes
  <1>3. CASE DeleteConnector
    BY Zenon, <1>0, <1>3, OpSteps DEF TakesConnectors
  <1>4. CASE DeleteDeviceRegistration
    <2>1. r \in regs'
      BY Zenon, <1>0, <1>4, OpSteps DEF TakesRegistrations
    <2> QED BY Zenon, <2>1
  <1>5. CASE Age
    BY Zenon, <1>5, OtherStep DEF GrowOld
  <1>6. ASSUME NEW m \in Nodes, deleteRegistration(m) PROVE \E q \in regs' : q.ip = fl[n].ip
    <2> DEFINE a == Pair(fl[n].creds, fl[n].ip)
    <2>1. a.ip = fl[n].ip
      BY DEF Pair
    <2>2. fl[n].pc \in Holding /\ fl[n].pc # "supersede"
      BY DEF Holding
    <2>3. a \in Claims(n)
      BY Zenon, <2>2 DEF Claims, Drafts
    <2> HIDE DEF a
    <2>4. ASSUME r \notin regs' PROVE FALSE
      <3>1. r.ip = a.ip
        BY Zenon, <2>1
      <3>2. m = n /\ a = file[m] /\ fl[m].pc = "supersede" /\ a.conn # fl[m].creds
        BY ZenonT(40), <1>6, <2>3, <2>4, <3>1, OwnRegistration
      <3> QED BY Zenon, <2>2, <3>2
    <2> QED BY Zenon, <2>4
  <1> QED BY Zenon, <1>1, <1>2, <1>3, <1>4, <1>5, <1>6 DEF Deletes

\* Unless the mode is on, a step that leaves every flanneld alone deletes no registration.
LEMMA DryRunStep ==
  ASSUME MeshInv, Grows \/ Deletes, registrationGC # "on", fl' = fl, NEW r \in regs
  PROVE  \E q \in regs' : q.ip = r.ip
  <1>0. TypeInv /\ OpInv
    BY Zenon DEF MeshInv
  <1>1. CASE Grows
    BY Zenon, <1>1 DEF Grows
  <1>2. CASE DeleteRoute
    BY Zenon, <1>0, <1>2, OpSteps DEF TakesRoutes
  <1>3. CASE DeleteConnector
    BY Zenon, <1>0, <1>3, OpSteps DEF TakesConnectors
  <1>4. CASE DeleteDeviceRegistration
    <2>1. regs' = regs
      BY <1>4 DEF DeleteDeviceRegistration
    <2> QED BY Zenon, <2>1
  <1>5. CASE Age
    BY Zenon, <1>5, OtherStep DEF GrowOld
  <1>6. ASSUME NEW m \in Nodes, deleteRegistration(m) PROVE FALSE
    <2>1. fl \in [Nodes -> [pc : Pcs, creds : Nat, ip : Nat]]
      BY Zenon, <1>0 DEF TypeInv
    <2>2. fl[m].pc = "supersede" /\ fl' = [fl EXCEPT ![m] = [fl[m] EXCEPT !.pc = "enroll"]]
      BY <1>6 DEF deleteRegistration, Move
    <2>3. fl'[m].pc = "enroll"
      BY <2>1, <2>2
    <2> QED BY <2>2, <2>3
  <1> QED BY Zenon, <1>1, <1>2, <1>3, <1>4, <1>5, <1>6 DEF Deletes

\* A registration within its grace period outlives the start of the flanneld that has
\* enrolled it: neither the operator nor the flanneld of another node deletes it. And with
\* the collection off or in a dry run the operator deletes no registration at all.
THEOREM EnrolmentsStay == Spec => EnrolmentsKept
  <1>1. MeshInv /\ [Next]_vars =>
          [/\ \A n \in Nodes : fl[n].pc \in {"save", "lease"} /\ (\E r \in regs : r.ip = fl[n].ip /\ ~r.old)
                => \E r \in regs' : r.ip = fl[n].ip
           /\ registrationGC # "on" /\ fl' = fl => \A r \in regs : \E q \in regs' : q.ip = r.ip]_vars
    BY Zenon, NextInv, EnrolmentStep, DryRunStep
  <1> QED BY MeshInvariant, <1>1, PTL DEF Spec, EnrolmentsKept

-----------------------------------------------------------------------------
(* What belongs to somebody else.                                          *)

\* A registration that is there no more.
Lost(r) == \A q \in regs' : q.ip # r.ip

\* A flanneld that gives up the registration of its state file.
GivenUp(r) == \E n \in Nodes : fl[n].pc = "supersede" /\ file[n] # None /\ r.ip = file[n].ip

OwnStep ==
  /\ \A c \in conns \ conns' : Owned(c.name)
  /\ \A r \in regs : Lost(r) => Owned(r.name) \/ GivenUp(r)

\* Every step that deletes takes what carries the prefix, or a flanneld's own.
LEMMA DeletesOwn ==
  ASSUME MeshInv, Grows \/ Deletes
  PROVE  OwnStep
  <1>0. TypeInv /\ OpInv
    BY Zenon DEF MeshInv
  <1>1. CASE conns' = conns /\ \A r \in regs : Lost(r) => Owned(r.name) \/ GivenUp(r)
    BY Zenon, <1>1 DEF OwnStep
  <1>2. ASSUME NEW r \in regs, Lost(r) PROVE r \notin regs'
    BY Zenon, <1>2 DEF Lost
  <1>3. CASE Grows
    BY Zenon, <1>2, <1>3 DEF Grows, OwnStep
  <1>4. CASE DeleteRoute
    <2>1. conns' = conns /\ regs' = regs
      BY Zenon, <1>0, <1>4, OpSteps DEF TakesRoutes
    <2> QED BY Zenon, <1>1, <1>2, <2>1
  <1>5. CASE DeleteConnector
    <2>1. regs' = regs /\ \A c \in conns : c \notin conns' => Owned(c.name)
      BY Zenon, <1>0, <1>5, OpSteps DEF TakesConnectors
    <2> QED BY Zenon, <1>2, <2>1 DEF OwnStep
  <1>6. CASE DeleteDeviceRegistration
    <2>1. conns' = conns /\ \A r \in regs : r \notin regs' => Owned(r.name)
      BY Zenon, <1>0, <1>6, OpSteps DEF TakesRegistrations
    <2> QED BY Zenon, <1>1, <1>2, <2>1
  <1>7. CASE Age
    <2>1. conns' = conns /\ \A r \in regs : \E q \in regs' : q.ip = r.ip
      BY Zenon, <1>7, OtherStep DEF GrowOld
    <2> QED BY Zenon, <1>1, <2>1 DEF Lost
  <1>8. ASSUME NEW n \in Nodes, deleteRegistration(n) PROVE OwnStep
    <2>1. conns' = conns /\ fl[n].pc = "supersede" /\ \A r \in regs : r \notin regs' => r.ip = file[n].ip
      BY Zenon, <1>8, FlanneldStep DEF TakesOwn
    <2>2. file[n] # None
      BY Zenon, <2>1 DEF MeshInv, ClaimInv, Loaded
    <2> QED BY Zenon, <1>1, <1>2, <2>1, <2>2 DEF GivenUp
  <1> QED BY Zenon, <1>3, <1>4, <1>5, <1>6, <1>7, <1>8 DEF Deletes

\* "Anything without this prefix is left strictly alone" (ConnectorNamePrefix): a connector
\* that is deleted carries the prefix of the cluster, and so does a registration, unless it
\* is the one in the state file of the flanneld that gives it up.
OthersAlone == [][OwnStep]_vars

\* The collection, whose lists are made before their elements are deleted one by one, and
\* the flannelds leave alone what belongs to other clusters of the account.
THEOREM OthersLeftAlone == Spec => OthersAlone
  <1>1. MeshInv /\ [Next]_vars => [OwnStep]_vars
    BY Zenon, NextInv, DeletesOwn
  <1> QED BY MeshInvariant, <1>1, PTL DEF Spec, OthersAlone
=============================================================================
