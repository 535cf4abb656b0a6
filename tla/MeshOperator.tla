---------------------------- MODULE MeshOperator ----------------------------
(***************************************************************************)
(* The control plane of the cloudflare-mesh backend: the operator          *)
(* (pkg/cloudflaremeshoperator), which gives every Kubernetes node a       *)
(* connector, a Secret with its credentials, a route and a host name and   *)
(* collects what no node needs any more; and on the nodes the enrolment    *)
(* of flanneld (bootstrap.go and loadOrEnroll of masque_linux.go).         *)
(* Every call to Cloudflare or Kubernetes is a step that may fail, also    *)
(* after it took effect; both sides may crash between any two.             *)
(*                                                                         *)
(* The operator's flags are those that publish host names (NodeHosts sync  *)
(* enabled), and any mode of the registration collection.                  *)
(*                                                                         *)
(* External: Cloudflare's and Kubernetes' stores; nodes that come and go;  *)
(* another cluster of the same account. A network may have routes to       *)
(* several connectors, and deleting a connector leaves its routes.         *)
(***************************************************************************)
EXTENDS Naturals, Sequences, FiniteSets

CONSTANTS
  Nodes, None,
  Cluster, OtherCluster,    \* cluster names, as the sequences of their dash-separated parts
  MaxIds,                   \* connectors and registrations ever created, each
  MaxFaults                 \* failed calls, crashes and changes of nodes, together

ASSUME MeshOperatorAssumption ==
  /\ None \notin Nodes /\ None \notin [conn : Nat, owner : Nat] /\ Cluster # OtherCluster
  /\ MaxIds \in Nat /\ MaxFaults \in Nat

VARIABLES
  up, ann, secret,          \* Kubernetes: the UIDs of nodes (0: absent), their annotations,
                            \*   and the bootstrap Secrets with the UID of their owner
  hosts, reloaded,          \* CoreDNS: the lines of NodeHosts, and those its pods run with
  conns, routes, regs,      \* Cloudflare: connectors, routes, device registrations
  op,                       \* the operator's reconcile
  registrationGC,           \* the mode of the registration collection, a flag
  gcDue,                    \* nextRegistrationGC has passed
  fl, file,                 \* flanneld and its state file on each node
  late,                     \* creations sent by an operator that has stopped
  count

kube == <<up, ann, secret, hosts, reloaded>>
cloud == <<conns, routes, regs>>
node == <<fl, file>>
gc == <<registrationGC, gcDue>>
vars == <<kube, cloud, op, gc, node, late, count>>

\* ConnectorName; registrations carry the name of their connector.
ConnectorName(c, n) == Append(c, n)
Owned(name) == Len(Cluster) <= Len(name) /\ SubSeq(name, 1, Len(Cluster)) = Cluster

Idle == [pc |-> "idle", snap |-> <<>>, todo |-> {}, cur |-> None, id |-> 0,
         conns |-> {}, routes |-> {}, ips |-> {}, err |-> FALSE, gc |-> {},
         text |-> <<>>]

Bump(k) == count' = [count EXCEPT ![k] = @ + 1]
MayFail == count.faults < MaxFaults
FrameOp == UNCHANGED <<up, ann, gc, node, late>>

\* The nodes Kubernetes has.
Live == {n \in Nodes : up[n] # 0}

\* Some element: the order of a list.
First(S) == CHOOSE x \in S : TRUE

\* Mutant: errors of single nodes do not stop the collection.
collectAnyway(o) ==
  IF o.todo # {} THEN [o EXCEPT !.pc = "connector", !.cur = First(o.todo), !.id = 0,
                                !.todo = @ \ {First(o.todo)}]
  ELSE [o EXCEPT !.pc = "hosts", !.cur = None, !.id = 0]

\* The next node. After the last one any error makes Reconcile return before it publishes
\* host names or collects.
NextNode(o) ==
  IF o.todo # {} THEN [o EXCEPT !.pc = "connector", !.cur = First(o.todo), !.id = 0,
                                !.todo = @ \ {First(o.todo)}]
  ELSE IF o.err THEN Idle ELSE [o EXCEPT !.pc = "hosts", !.cur = None, !.id = 0]

Failed(o) == NextNode([o EXCEPT !.err = TRUE])

-----------------------------------------------------------------------------
\* Reconcile: the nodes.

\* Reconcile lists the nodes and works from that list.
ListNodes ==
  /\ op.pc = "idle"
  /\ op' = NextNode([Idle EXCEPT !.snap = [n \in Live |-> [uid |-> up[n], ann |-> ann[n]]],
                                 !.todo = Live])
  /\ UNCHANGED <<secret, hosts, reloaded, cloud, count>> /\ FrameOp

Named(n) == {c \in conns : c.name = ConnectorName(Cluster, n)}

IsSingleton(S) == \E x \in S : S = {x}

\* EnsureConnector: list, and take the only one of that name, create one, or give up.
ListConnectors ==
  /\ op.pc = "connector"
  /\ \/ /\ op' = CASE Named(op.cur) = {} -> [op EXCEPT !.pc = "create"]
                   [] IsSingleton(Named(op.cur)) ->
                        LET c == First(Named(op.cur))
                        IN  [op EXCEPT !.pc = "secret", !.id = c.id, !.conns = @ \cup {c.id}]
                   [] OTHER -> Failed(op)
        /\ UNCHANGED count
     \/ MayFail /\ Bump("faults") /\ op' = Failed(op)
  /\ UNCHANGED <<secret, hosts, reloaded, cloud>> /\ FrameOp

New(n) == [id |-> count.conns + 1, name |-> ConnectorName(Cluster, n)]

\* createConnector; its answer may be lost.
createConnector ==
  /\ op.pc = "create" /\ count.conns < MaxIds
  /\ conns' = conns \cup {New(op.cur)}
  /\ \/ /\ op' = [op EXCEPT !.pc = "secret", !.id = New(op.cur).id, !.conns = @ \cup {New(op.cur).id}]
        /\ Bump("conns")
     \/ /\ MayFail /\ op' = Failed(op)
        /\ count' = [count EXCEPT !.conns = @ + 1, !.faults = @ + 1]
  /\ UNCHANGED <<secret, hosts, reloaded, routes, regs>> /\ FrameOp

Secret(o) == [conn |-> o.id, owner |-> o.snap[o.cur].uid]

\* What the annotations of the list say: without those of this backend the node is done;
\* one that names another connector is an error; else there is a Mesh IP, and a route to
\* make. (A node with a lease has a PodCIDR.)
Advertised(o) ==
  LET a == o.snap[o.cur].ann
  IN  IF a = None THEN NextNode(o)
      ELSE IF a.conn # o.id THEN Failed(o)
      ELSE [o EXCEPT !.pc = "route", !.ips = @ \cup {<<o.cur, a.ip>>}]

ensureBootstrapSecret ==
  /\ op.pc = "secret"
  /\ \/ /\ secret' = [secret EXCEPT ![op.cur] = Secret(op)]
        /\ op' = Advertised(op) /\ UNCHANGED count
     \/ /\ MayFail /\ Bump("faults") /\ op' = Failed(op)
        /\ secret' \in {secret, [secret EXCEPT ![op.cur] = Secret(op)]}
  /\ UNCHANGED <<hosts, reloaded, cloud>> /\ FrameOp

\* A route; its comment has the name of the cluster.
Route(n, id) == [net |-> n, conn |-> id, comment |-> Cluster]

\* EnsureRoute: the route exists or is created; the answer may be lost.
EnsureRoute ==
  /\ op.pc = "route"
  /\ routes' = routes \cup {Route(op.cur, op.id)}
  /\ \/ op' = NextNode([op EXCEPT !.routes = @ \cup {Route(op.cur, op.id)}]) /\ UNCHANGED count
     \/ MayFail /\ Bump("faults") /\ op' = Failed(op)
  /\ UNCHANGED <<secret, hosts, reloaded, conns, regs>> /\ FrameOp

\* The lines of NodeHosts: the markers, those of others, and <<node, Mesh IP>>.
Begin == <<"begin">>
End == <<"end">>
Own == <<"own">>

At(l, m) == {i \in 1 .. Len(l) : l[i] = m}
WellFormed(l) ==
  \/ At(l, Begin) = {} /\ At(l, End) = {}
  \/ \E i, j \in 1 .. Len(l) : i < j /\ At(l, Begin) = {i} /\ At(l, End) = {j}

\* The elements of a set in some order.
Listed(S) == CHOOSE s \in [1 .. Cardinality(S) -> S] : \A x \in S : \E i \in DOMAIN s : s[i] = x

\* The managed block; without a host there is none.
Block(ips) == IF ips = {} THEN <<>> ELSE <<Begin>> \o Listed(ips) \o <<End>>

\* mergeManagedNodeHosts: the lines around the old block, and then the new one.
mergeManagedNodeHosts(l, ips) ==
  IF At(l, Begin) = {} THEN l \o Block(ips)
  ELSE SubSeq(l, 1, First(At(l, Begin)) - 1) \o SubSeq(l, First(At(l, End)) + 1, Len(l)) \o Block(ips)

\* ensureCoreDNSNodeHosts; markers that do not match are an error.
ensureCoreDNSNodeHosts ==
  /\ op.pc = "hosts"
  /\ LET text == mergeManagedNodeHosts(hosts, op.ips)
     IN  \/ /\ WellFormed(hosts) /\ hosts' = text
            /\ op' = [op EXCEPT !.pc = "reload", !.text = text] /\ UNCHANGED count
         \/ ~WellFormed(hosts) /\ op' = Idle /\ UNCHANGED <<hosts, count>>
         \/ /\ WellFormed(hosts) /\ MayFail /\ Bump("faults") /\ op' = Idle
            /\ hosts' \in {hosts, text}
  /\ UNCHANGED <<secret, reloaded, cloud>> /\ FrameOp

\* ensureCoreDNSReload: the hash of the lines is compared with that of the workload.
ensureCoreDNSReload ==
  /\ op.pc = "reload"
  /\ \/ reloaded' = op.text /\ op' = [op EXCEPT !.pc = "gcroutes", !.text = <<>>] /\ UNCHANGED count
     \/ MayFail /\ Bump("faults") /\ op' = Idle /\ reloaded' \in {reloaded, op.text}
  /\ UNCHANGED <<secret, hosts, cloud>> /\ FrameOp

-----------------------------------------------------------------------------
\* Reconcile: garbage collection. A list, then a deletion at a time.

\* After the last route any error makes Reconcile return.
RoutesLeft(o) ==
  IF o.gc # {} THEN o ELSE IF o.err THEN Idle ELSE [o EXCEPT !.pc = "gcconns"]

\* The routes that carry the comment of the cluster and belong to no listed node.
staleRoutes == {r \in routes : r.comment = Cluster /\ r \notin op.routes}

ListRoutes ==
  /\ op.pc = "gcroutes"
  /\ \/ op' = RoutesLeft([op EXCEPT !.pc = "delroutes", !.gc = staleRoutes]) /\ UNCHANGED count
     \/ MayFail /\ Bump("faults") /\ op' = Idle
  /\ UNCHANGED <<secret, hosts, reloaded, cloud>> /\ FrameOp

\* DeleteRoute; after an error the others are still deleted.
DeleteRoute ==
  /\ op.pc = "delroutes"
  /\ op.gc # {} /\ LET r == First(op.gc) IN
       \/ routes' = routes \ {r} /\ op' = RoutesLeft([op EXCEPT !.gc = @ \ {r}]) /\ UNCHANGED count
       \/ /\ MayFail /\ Bump("faults") /\ routes' \in {routes, routes \ {r}}
          /\ op' = RoutesLeft([op EXCEPT !.gc = @ \ {r}, !.err = TRUE])
  /\ UNCHANGED <<secret, hosts, reloaded, conns, regs>> /\ FrameOp

\* The connectors that carry the prefix of the cluster and belong to no listed node.
staleConnectors == {c \in conns : Owned(c.name) /\ c.id \notin op.conns}

ListStaleConnectors ==
  /\ op.pc = "gcconns"
  /\ \/ op' = [op EXCEPT !.pc = "delconns", !.gc = staleConnectors] /\ UNCHANGED count
     \/ MayFail /\ Bump("faults") /\ op' = Idle
  /\ UNCHANGED <<secret, hosts, reloaded, cloud>> /\ FrameOp

DeleteConnector ==
  /\ op.pc = "delconns"
  /\ op.gc # {} /\ LET c == First(op.gc) IN
       /\ op' = [op EXCEPT !.gc = @ \ {c}]
       /\ \/ conns' = conns \ {c} /\ UNCHANGED count
          \/ MayFail /\ Bump("faults") /\ UNCHANGED conns
  /\ UNCHANGED <<secret, hosts, reloaded, routes, regs>> /\ FrameOp

\* Mutant: the grace period is forgotten.
orphansAnyAge == {r \in regs : Owned(r.name) /\ \A p \in op.ips : p[2] # r.ip}

\* Registrations of the cluster that no node advertises and that are past the grace period.
orphanRegistrations == {r \in regs : Owned(r.name) /\ r.old /\ \A p \in op.ips : p[2] # r.ip}

RegistrationsLeft(o) == IF o.gc # {} THEN o ELSE Idle

\* collectRegistrations: unless it is off, a sweep is due once per period, and the next
\* one is set before the list is asked for.
collectRegistrations ==
  /\ op.pc = "delconns" /\ op.gc = {}
  /\ \/ (registrationGC = "off" \/ ~gcDue) /\ op' = Idle /\ UNCHANGED <<gcDue, count>>
     \/ /\ registrationGC # "off" /\ gcDue /\ gcDue' = FALSE
        /\ \/ op' = RegistrationsLeft([op EXCEPT !.pc = "delregs", !.gc = orphanRegistrations]) /\ UNCHANGED count
           \/ MayFail /\ Bump("faults") /\ op' = Idle
  /\ UNCHANGED <<kube, cloud, registrationGC, node, late>>

\* The loop's body for an orphan: deleted, or in a dry run only logged.
DeleteDeviceRegistration ==
  /\ op.pc = "delregs"
  /\ op.gc # {} /\ LET r == First(op.gc) IN
       /\ op' = RegistrationsLeft([op EXCEPT !.gc = @ \ {r}])
       /\ \/ registrationGC = "dryrun" /\ UNCHANGED <<regs, count>>
          \/ registrationGC = "on" /\ regs' = regs \ {r} /\ UNCHANGED count
          \/ registrationGC = "on" /\ MayFail /\ Bump("faults") /\ UNCHANGED regs
  /\ UNCHANGED <<secret, hosts, reloaded, conns, routes>> /\ FrameOp

\* The operator stops, or another one takes over, and a creation it has sent may still
\* be carried out.
OperatorCrash ==
  /\ op.pc # "idle" /\ MayFail
  /\ Bump("faults")
  /\ op' = Idle /\ gcDue' = TRUE /\ UNCHANGED registrationGC
  /\ late' = IF op.pc = "create" THEN late \cup {op.cur} ELSE late
  /\ UNCHANGED <<kube, cloud, node>>

LateCreate ==
  /\ count.conns < MaxIds
  /\ \E n \in late : conns' = conns \cup {New(n)} /\ late' = late \ {n}
  /\ Bump("conns")
  /\ UNCHANGED <<kube, routes, regs, op, gc, node>>

-----------------------------------------------------------------------------
\* flanneld on node n.

Off == [pc |-> "down", creds |-> 0, ip |-> 0]
Move(n, s) == fl' = [fl EXCEPT ![n] = s]
FrameFl == UNCHANGED <<kube, conns, routes, op, gc, late>>

\* Mutant: a state file that names another connector is an error.
loadOrExit(f, id) == IF f = None THEN "enroll" ELSE IF f.conn # id THEN "down" ELSE "refresh"

\* loadOrEnroll: the state file is missing, names another connector, or holds a
\* registration to refresh.
loadOrEnroll(f, id) == IF f = None THEN "enroll" ELSE IF f.conn # id THEN "supersede" ELSE "refresh"

\* waitForOperatorCredentials polls until the Secret is there.
waitForOperatorCredentials(n) ==
  /\ fl[n].pc = "down" /\ up[n] # 0 /\ secret[n] # None
  /\ LET id == secret[n].conn
     IN  Move(n, [Off EXCEPT !.pc = loadOrEnroll(file[n], id), !.creds = id])
  /\ UNCHANGED <<regs, file, count>> /\ FrameFl

\* deleteRegistration of the superseded one is best effort.
deleteRegistration(n) ==
  /\ fl[n].pc = "supersede"
  /\ Move(n, [fl[n] EXCEPT !.pc = "enroll"])
  /\ \/ regs' = {r \in regs : r.ip # file[n].ip} /\ UNCHANGED count
     \/ MayFail /\ Bump("faults") /\ UNCHANGED regs
  /\ UNCHANGED file /\ FrameFl

\* refreshRegistration: if the registration is gone, enrol again; another error ends
\* the start.
refreshRegistration(n) ==
  /\ fl[n].pc = "refresh"
  /\ \/ /\ Move(n, IF \E r \in regs : r.ip = file[n].ip
                   THEN [fl[n] EXCEPT !.pc = "lease", !.ip = file[n].ip]
                   ELSE [fl[n] EXCEPT !.pc = "enroll"])
        /\ UNCHANGED count
     \/ MayFail /\ Bump("faults") /\ Move(n, Off)
  /\ UNCHANGED <<regs, file>> /\ FrameFl

\* The enrolment is refused once the connector is gone; its answer may be lost.
Enroll(n) ==
  /\ fl[n].pc = "enroll"
  /\ IF \A c \in conns : c.id # fl[n].creds
     THEN Move(n, Off) /\ UNCHANGED <<regs, count>>
     ELSE /\ count.regs < MaxIds
          /\ regs' = regs \cup {[ip |-> count.regs + 1, name |-> ConnectorName(Cluster, n), old |-> FALSE]}
          /\ \/ Move(n, [fl[n] EXCEPT !.pc = "save", !.ip = count.regs + 1]) /\ Bump("regs")
             \/ /\ MayFail /\ Move(n, Off)
                /\ count' = [count EXCEPT !.regs = @ + 1, !.faults = @ + 1]
  /\ UNCHANGED file /\ FrameFl

\* The new registration is refreshed and writePrivateJSON renames a complete file into
\* place; after an error of either nothing on the node knows of the registration.
writePrivateJSON(n) ==
  /\ fl[n].pc = "save"
  /\ \/ /\ file' = [file EXCEPT ![n] = [conn |-> fl[n].creds, ip |-> fl[n].ip]]
        /\ Move(n, [fl[n] EXCEPT !.pc = "lease"]) /\ UNCHANGED count
     \/ MayFail /\ Bump("faults") /\ Move(n, Off) /\ UNCHANGED file
  /\ UNCHANGED regs /\ FrameFl

\* AcquireLease publishes connector and Mesh IP on the node.
Publish(n) ==
  /\ fl[n].pc = "lease"
  /\ ann' = [ann EXCEPT ![n] = [conn |-> fl[n].creds, ip |-> fl[n].ip]]
  /\ Move(n, [fl[n] EXCEPT !.pc = "run"])
  /\ UNCHANGED <<up, secret, hosts, reloaded, cloud, op, gc, file, late, count>>

Crash(n) ==
  /\ fl[n].pc # "down" /\ MayFail
  /\ Bump("faults") /\ Move(n, Off)
  /\ UNCHANGED <<regs, file>> /\ FrameFl

\* The state file is lost with the process.
LoseFile(n) ==
  /\ file[n] # None /\ MayFail
  /\ Bump("faults") /\ Move(n, Off)
  /\ file' = [file EXCEPT ![n] = None]
  /\ UNCHANGED regs /\ FrameFl

-----------------------------------------------------------------------------
\* Others.

\* A node joins, or leaves with its flanneld and its annotations.
NodeChange(n) ==
  /\ MayFail
  /\ Bump("faults")
  /\ up' = [up EXCEPT ![n] = IF @ = 0 THEN count.faults + 2 ELSE 0]
  /\ ann' = [ann EXCEPT ![n] = None]
  /\ Move(n, Off)
  /\ UNCHANGED <<secret, hosts, reloaded, cloud, op, gc, file, late>>

\* Kubernetes collects a Secret whose owner, the node of that UID, is gone.
SecretCollected(n) ==
  /\ secret[n] # None /\ secret[n].owner # up[n]
  /\ secret' = [secret EXCEPT ![n] = None]
  /\ UNCHANGED <<up, ann, hosts, reloaded, cloud, op, gc, node, late, count>>

\* An administrator adds a line to NodeHosts, or damages the block.
EditHosts ==
  /\ MayFail /\ Bump("faults")
  /\ hosts' \in {Append(hosts, Own), SelectSeq(hosts, LAMBDA l : l # End)}
  /\ UNCHANGED <<up, ann, secret, reloaded, cloud, op, gc, node, late>>

\* Half an hour: longer than a reconcile and than the start of a flanneld.
Age ==
  /\ op.pc = "idle" /\ \A n \in Nodes : fl[n].pc \in {"down", "run"}
  /\ \E r \in regs : ~r.old
  /\ regs' = {[r EXCEPT !.old = TRUE] : r \in regs}
  /\ UNCHANGED <<kube, conns, routes, op, gc, node, late, count>>

GCPeriod ==
  /\ ~gcDue /\ gcDue' = TRUE
  /\ UNCHANGED <<kube, cloud, op, registrationGC, node, late, count>>

\* What a node has left behind that went while no operator was running; and, possibly,
\* the state file that a node has kept from an earlier membership, and its registration.
Init ==
  /\ up \in [Nodes -> {0, 1}] /\ ann = [n \in Nodes |-> None] /\ secret = [n \in Nodes |-> None]
  /\ hosts = <<Own>> /\ reloaded = <<>>
  /\ conns = {[id |-> 0, name |-> ConnectorName(OtherCluster, "other")],
              [id |-> MaxIds + 2, name |-> ConnectorName(Cluster, "gone")]}
  /\ \E veteran \in Nodes \cup {None} :
       LET id == MaxIds + 1
       IN  /\ file = [n \in Nodes |-> IF n = veteran THEN [conn |-> id, ip |-> id] ELSE None]
           /\ regs = {[ip |-> 0, name |-> ConnectorName(OtherCluster, "other"), old |-> TRUE]}
                       \cup {[ip |-> id, name |-> ConnectorName(Cluster, n), old |-> TRUE] : n \in {veteran} \ {None}}
  /\ routes = {Route("gone", MaxIds + 2), [net |-> "other", conn |-> 0, comment |-> OtherCluster]}
  /\ op = Idle /\ registrationGC \in {"off", "dryrun", "on"} /\ gcDue = TRUE
  /\ fl = [n \in Nodes |-> Off] /\ late = {}
  /\ count = [conns |-> 0, regs |-> 0, faults |-> 0]

Reconcile ==
  \/ ListNodes \/ ListConnectors \/ createConnector \/ ensureBootstrapSecret
  \/ EnsureRoute \/ ensureCoreDNSNodeHosts \/ ensureCoreDNSReload
  \/ ListRoutes \/ DeleteRoute \/ ListStaleConnectors \/ DeleteConnector
  \/ collectRegistrations \/ DeleteDeviceRegistration
Flanneld(n) ==
  \/ waitForOperatorCredentials(n) \/ deleteRegistration(n)
  \/ refreshRegistration(n) \/ Enroll(n) \/ writePrivateJSON(n) \/ Publish(n)
Faults == OperatorCrash \/ LateCreate \/ EditHosts \/ \E n \in Nodes : Crash(n) \/ LoseFile(n) \/ NodeChange(n)
Time == Age \/ GCPeriod \/ \E n \in Nodes : SecretCollected(n)

Next == Reconcile \/ (\E n \in Nodes : Flanneld(n)) \/ Faults \/ Time

Spec == Init /\ [][Next]_vars

\* The operator's ticker, every flanneld, Kubernetes' collector and the clock go on; the
\* clock's half hour comes although reconciles are running all the time.
FairSpec ==
  /\ Spec /\ WF_vars(Reconcile) /\ \A n \in Nodes : WF_vars(Flanneld(n)) /\ WF_vars(SecretCollected(n))
  /\ SF_vars(Age) /\ WF_vars(GCPeriod)

-----------------------------------------------------------------------------
\* A reconcile deletes nothing that a node of its list stands for: neither the connector
\* whose credentials are in its Secret, nor the route or the registration it advertised, whatever failed for that
\* node or for another one.
ListedNodesKept ==
  [][\A n \in DOMAIN op.snap :
       LET claim == op.snap[n].ann
       IN  /\ \A c \in conns \ conns' : Secret([op EXCEPT !.cur = n, !.id = c.id]) # secret[n]
           /\ claim # None => /\ Route(n, claim.conn) \in routes => Route(n, claim.conn) \in routes'
                              /\ op.pc = "delregs" => \A g \in regs \ regs' : g.ip # claim.ip]_vars

\* "Nothing is deleted until it has had registrationGCGrace to publish its Mesh IP": the
\* operator leaves a flanneld alone that has enrolled and not yet published. And unless the
\* mode is on only a flanneld deletes a registration, as it goes on to enrol again: the
\* default dry run "logs what it would delete without deleting anything".
EnrolmentsKept ==
  [][/\ \A n \in Nodes : fl[n].pc \in {"save", "lease"} /\ (\E r \in regs : r.ip = fl[n].ip /\ ~r.old)
          => \E r \in regs' : r.ip = fl[n].ip
     /\ registrationGC # "on" /\ fl' = fl => \A r \in regs : \E q \in regs' : q.ip = r.ip]_vars

\* "Anything without this prefix is left strictly alone": what belongs to another cluster
\* of the account stays.
OthersUntouched ==
  /\ \E c \in conns : c.id = 0
  /\ \E r \in routes : r.conn = 0
  /\ \E g \in regs : g.ip = 0

\* No node advertises a connector other than the operator's or a registration that is
\* gone, no name is there twice, and the markers in NodeHosts match.
Sound ==
  /\ WellFormed(hosts)
  /\ \A n \in Nodes : /\ Cardinality(Named(n)) <= 1
                      /\ ann[n] # None => /\ \A c \in Named(n) : c.id = ann[n].conn
                                          /\ \E g \in regs : g.ip = ann[n].ip

Converged ==
  /\ \A n \in Live : fl[n].pc = "run"
  /\ {c.name : c \in {d \in conns : Owned(d.name)}} = {ConnectorName(Cluster, n) : n \in Live}
  /\ \A n \in Live : \A c \in Named(n) : secret[n] = [conn |-> c.id, owner |-> up[n]]
  /\ {r \in routes : r.comment = Cluster} = {Route(n, ann[n].conn) : n \in Live}
  /\ WellFormed(hosts)
  /\ hosts = mergeManagedNodeHosts(hosts, {<<n, ann[n].ip>> : n \in Live}) /\ reloaded = hosts
  /\ registrationGC = "on" => {r.ip : r \in {g \in regs : Owned(g.name)}} \subseteq {ann[n].ip : n \in Live}
  /\ OthersUntouched

\* After the last failure, crash and change of nodes, every flanneld runs, everything a
\* node needs is there, everything else of this cluster is gone (registrations if their
\* collection is on) and nothing of the other one; unless a node is left with a
\* connector that is not the operator's or a registration that was collected while it
\* started, a name is there twice or the block is damaged. These last until somebody
\* restarts that flanneld or repairs the rest.
Converges == <>[]Sound => <>[]Converged
=============================================================================
