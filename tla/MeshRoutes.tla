----------------------------- MODULE MeshRoutes -----------------------------
(***************************************************************************)
(* The routing state the cloudflare-mesh backend keeps on a node           *)
(* (network_linux.go and routes_linux.go): a route in a table of its own,  *)
(* a policy rule and a SNAT rule for the subnet of every other node.       *)
(* Events and a ticker drive one goroutine; each netlink or iptables call  *)
(* is a step and may fail, the process may crash between any two, and the  *)
(* traffic manager owns the chain the SNAT rules are in.                   *)
(*                                                                         *)
(* External: the kernel, which drops the routes of the TUN device with     *)
(* the process that holds it; the lease events, one at a time as the       *)
(* Kubernetes manager sends them; programs that flush the nat table.       *)
(***************************************************************************)
EXTENDS Naturals, Sequences, FiniteSets

CONSTANTS
  Nets,        \* subnets of the other nodes
  Locals,      \* subnets this node may be leased
  Mesh,        \* MeshCIDR
  MaxChanges, MaxFails, MaxStops, MaxFlushes   \* bounds on what others do

ASSUME MeshRoutesAssumption ==
  /\ IsFiniteSet(Nets) /\ Mesh \notin Nets /\ Locals # {}
  /\ {MaxChanges, MaxFails, MaxStops, MaxFlushes} \subseteq Nat

VARIABLES
  leases,      \* subnets leased by other nodes
  feed,        \* events the backend has not handled
  tun, route, rule, snat, chain,    \* the host; chain: FLANNEL-POSTRTG holds flannel's rules
  pc, local, desired, synced, grace,          \* meshNetwork; grace: prunableAt has passed
  job,         \* the call in progress of Ensure or Remove
  plan,        \* what a reconcile has left to do
  dirty,       \* a call failed since the last start
  count        \* changes, fails, stops and flushes so far

host == <<tun, route, rule, snat, chain>>
view == <<local, desired, synced, grace>>
vars == <<leases, feed, host, pc, view, job, plan, dirty, count>>

Ev(k, n) == [kind |-> k, net |-> n]
Idle == [k |-> "idle", net |-> Mesh]
NoPlan == [mode |-> "none", ensure |-> {}, stale |-> {}]

\* The calls of Ensure and of Remove, in order.
After == [e1 |-> "e2", e2 |-> "e3", e3 |-> "idle", r1 |-> "r2", r2 |-> "r3", r3 |-> "idle"]
Step(k) == IF After[k] = "idle" THEN Idle ELSE [job EXCEPT !.k = After[k]]

MayFail == count.fails < MaxFails
Fail == count' = [count EXCEPT !.fails = @ + 1] /\ dirty' = TRUE
Fine == UNCHANGED <<count, dirty>>

-----------------------------------------------------------------------------
\* RegisterNetwork and the start of Run.

\* startNativeTransport; the TUN device is there once it returns.
StartTransport ==
  /\ pc = "down"
  /\ pc' = "lease" /\ tun' = TRUE /\ dirty' = FALSE
  /\ UNCHANGED <<leases, feed, route, rule, snat, chain, view, job, plan, count>>

\* The transport is closed and its routes go with the device.
CloseTransport == tun' = FALSE /\ route' = {}

\* AcquireLease; if it fails the transport is closed.
AcquireLease ==
  /\ pc = "lease"
  /\ \/ local' \in Locals /\ pc' = "meshroute" /\ UNCHANGED <<tun, route>> /\ Fine
     \/ MayFail /\ Fail /\ CloseTransport /\ pc' = "down" /\ UNCHANGED local
  /\ UNCHANGED <<leases, feed, rule, snat, chain, desired, synced, grace, job, plan>>

\* newLocalRouteManager and ensureMeshRoute: the route, then the rule; if one of them
\* fails the transport is closed.
ensureMeshRoute ==
  /\ pc = "meshroute"
  /\ \/ route' = route \cup {Mesh} /\ rule' = rule \cup {Mesh} /\ pc' = "traffic"
          /\ UNCHANGED tun /\ Fine
     \/ MayFail /\ Fail /\ CloseTransport /\ pc' = "down" /\ UNCHANGED rule
  /\ UNCHANGED <<leases, feed, snat, chain, view, job, plan>>

\* main sets up the masquerade rules, which empties the chain; then Run starts, the
\* set of desired subnets is empty, and the watch begins with every lease.
StartRun(order) ==
  /\ pc = "traffic"
  /\ chain' = TRUE /\ snat' = {}
  /\ desired' = {} /\ synced' = FALSE /\ grace' = FALSE
  /\ feed' = [i \in DOMAIN order |-> Ev("added", order[i])]
  /\ pc' = "run"
  /\ UNCHANGED <<leases, tun, route, rule, local, job, plan, dirty, count>>

Orders == {s \in [1 .. Cardinality(leases) -> leases] : \A i, j \in DOMAIN s : s[i] = s[j] => i = j}

-----------------------------------------------------------------------------
\* handleEvents and reconcile.

Free == pc = "run" /\ job = Idle /\ plan = NoPlan

\* Mutant: the backend of an event is not looked at.
handleAnyBackend ==
  LET e == Head(feed)
  IN  /\ Free /\ feed # <<>>
      /\ feed' = Tail(feed)
      /\ desired' = IF e.kind = "added" THEN desired \cup {e.net} ELSE desired \ {e.net}
      /\ synced' = TRUE
      /\ job' = [k |-> IF e.kind = "added" THEN "e1" ELSE "r1", net |-> e.net]
      /\ UNCHANGED <<leases, host, pc, local, grace, plan, dirty, count>>

\* An event of another backend is ignored, but the set counts as synced after it.
handleEvents ==
  LET e == Head(feed)
  IN  /\ Free /\ feed # <<>>
      /\ feed' = Tail(feed)
      /\ desired' = CASE e.kind = "added" -> desired \cup {e.net}
                      [] e.kind = "removed" -> desired \ {e.net} [] OTHER -> desired
      /\ synced' = TRUE
      /\ job' = CASE e.kind = "added" -> [k |-> "e1", net |-> e.net]
                  [] e.kind = "removed" -> [k |-> "r1", net |-> e.net] [] OTHER -> Idle
      /\ UNCHANGED <<leases, host, pc, local, grace, plan, dirty, count>>

\* The ticker: known subnets are ensured again; the others are pruned only once the
\* set is synced or the grace period is over.
reconcile ==
  /\ Free
  /\ plan' = [mode |-> IF ~synced /\ ~grace THEN "assert" ELSE "prune",
              ensure |-> desired, stale |-> {}]
  /\ UNCHANGED <<leases, feed, host, pc, view, job, dirty, count>>

PruneGrace ==
  /\ pc = "run" /\ ~grace
  /\ grace' = TRUE
  /\ UNCHANGED <<leases, feed, host, pc, local, desired, synced, job, plan, dirty, count>>

\* Reconcile: ensure all, list what is on the host, remove what is stale.
EnsureNext ==
  /\ pc = "run" /\ job = Idle
  /\ \E n \in plan.ensure : /\ job' = [k |-> "e1", net |-> n]
                            /\ plan' = [plan EXCEPT !.ensure = @ \ {n}]
  /\ UNCHANGED <<leases, feed, host, pc, view, dirty, count>>

\* Mutant: only the routes are looked at.
staleRoutes == route \ (desired \cup {Mesh})

\* Routes, rules and SNAT rules count independently of each other.
staleDestinations ==
  (route \cup rule \cup {s[1] : s \in snat}) \ (desired \cup {Mesh})

\* If a listing fails nothing is pruned.
ListStale ==
  /\ pc = "run" /\ job = Idle /\ plan.mode = "prune" /\ plan.ensure = {}
  /\ \/ plan' = (IF staleDestinations = {} THEN NoPlan
                 ELSE [mode |-> "remove", ensure |-> {}, stale |-> staleDestinations]) /\ Fine
     \/ MayFail /\ Fail /\ plan' = NoPlan
  /\ UNCHANGED <<leases, feed, host, pc, view, job>>

RemoveNext ==
  /\ pc = "run" /\ job = Idle
  /\ \E n \in plan.stale : /\ job' = [k |-> "r1", net |-> n]
                           /\ plan' = IF plan.stale = {n} THEN NoPlan
                                      ELSE [plan EXCEPT !.stale = @ \ {n}]
  /\ UNCHANGED <<leases, feed, host, pc, view, dirty, count>>

AssertDone ==
  /\ pc = "run" /\ job = Idle /\ plan.mode = "assert" /\ plan.ensure = {}
  /\ plan' = NoPlan
  /\ UNCHANGED <<leases, feed, host, pc, view, job, dirty, count>>

-----------------------------------------------------------------------------
\* The calls.

\* Ensure: the link is looked up and the route replaced; the rule added, which may
\* exist already; the SNAT rule inserted unless it exists. The first error ends it.
Ensure ==
  /\ pc = "run" /\ job.k \in {"e1", "e2", "e3"}
  /\ \/ /\ Fine /\ job' = Step(job.k)
        /\ job.k = "e3" => chain
        /\ route' = IF job.k = "e1" THEN route \cup {job.net} ELSE route
        /\ rule' = IF job.k = "e2" THEN rule \cup {job.net} ELSE rule
        /\ snat' = IF job.k = "e3" THEN snat \cup {<<job.net, local>>} ELSE snat
     \/ /\ IF job.k = "e3" /\ ~chain THEN Fine ELSE MayFail /\ Fail
        /\ job' = Idle
        /\ UNCHANGED <<route, rule, snat>>
  /\ UNCHANGED <<leases, feed, tun, chain, pc, view, plan>>

\* Remove: the route, the rule and the SNAT rule as this run would have written it;
\* an error is noted and the next call made.
Remove ==
  /\ pc = "run" /\ job.k \in {"r1", "r2", "r3"}
  /\ job' = Step(job.k)
  /\ \/ /\ Fine
        /\ route' = IF job.k = "r1" THEN route \ {job.net} ELSE route
        /\ rule' = IF job.k = "r2" THEN rule \ {job.net} ELSE rule
        /\ snat' = IF job.k = "r3" THEN snat \ {<<job.net, local>>} ELSE snat
     \/ MayFail /\ Fail /\ UNCHANGED <<route, rule, snat>>
  /\ UNCHANGED <<leases, feed, tun, chain, pc, view, plan>>

-----------------------------------------------------------------------------
\* shutdown.

\* The context is cancelled; Run returns when it is next in its select.
Cancel ==
  /\ Free /\ count.stops < MaxStops
  /\ count' = [count EXCEPT !.stops = @ + 1]
  /\ pc' = "cleansnat"
  /\ UNCHANGED <<leases, feed, host, view, job, plan, dirty>>

\* Mutant: Cleanup removes what this run knows of.
cleanupDesired ==
  /\ pc \in {"cleansnat", "cleanroutes", "cleanrules"}
  /\ pc' = [cleansnat |-> "cleanroutes", cleanroutes |-> "cleanrules", cleanrules |-> "close"][pc]
  /\ snat' = IF pc = "cleansnat" THEN {s \in snat : s[1] \notin desired} ELSE snat
  /\ route' = IF pc = "cleanroutes" THEN route \ (desired \cup {Mesh}) ELSE route
  /\ rule' = IF pc = "cleanrules" THEN rule \ (desired \cup {Mesh}) ELSE rule
  /\ Fine
  /\ UNCHANGED <<leases, feed, tun, chain, view, job, plan>>

\* Cleanup: the SNAT rules of this run's form, all routes of the table, all rules that
\* point to it; a call that fails leaves some behind, and the rest goes on.
Cleanup ==
  /\ pc \in {"cleansnat", "cleanroutes", "cleanrules"}
  /\ pc' = [cleansnat |-> "cleanroutes", cleanroutes |-> "cleanrules", cleanrules |-> "close"][pc]
  /\ \/ /\ Fine
        /\ snat' = IF pc = "cleansnat" THEN {s \in snat : s[2] # local} ELSE snat
        /\ route' = IF pc = "cleanroutes" THEN {} ELSE route
        /\ rule' = IF pc = "cleanrules" THEN {} ELSE rule
     \/ MayFail /\ Fail /\ UNCHANGED <<snat, route, rule>>
  /\ UNCHANGED <<leases, feed, tun, chain, view, job, plan>>

\* transport.Close, then the process exits.
Close ==
  /\ pc = "close"
  /\ CloseTransport /\ pc' = "stopped"
  /\ UNCHANGED <<leases, feed, rule, snat, chain, view, job, plan, dirty, count>>

Restart ==
  /\ pc = "stopped"
  /\ pc' = "down"
  /\ UNCHANGED <<leases, feed, host, view, job, plan, dirty, count>>

-----------------------------------------------------------------------------
\* Others.

Crash ==
  /\ pc \notin {"down", "stopped"} /\ count.stops < MaxStops
  /\ count' = [count EXCEPT !.stops = @ + 1]
  /\ CloseTransport /\ pc' = "down" /\ job' = Idle /\ plan' = NoPlan /\ feed' = <<>>
  /\ UNCHANGED <<leases, rule, snat, chain, view, dirty>>

LeaseChange(n, foreign) ==
  /\ count.changes < MaxChanges
  /\ count' = [count EXCEPT !.changes = @ + 1]
  /\ leases' = IF foreign THEN leases ELSE IF n \in leases THEN leases \ {n} ELSE leases \cup {n}
  /\ feed' = IF pc # "run" THEN feed
             ELSE Append(feed, Ev(IF foreign THEN "foreign"
                                  ELSE IF n \in leases THEN "removed" ELSE "added", n))
  /\ UNCHANGED <<host, pc, view, job, plan, dirty>>

\* The nat table is flushed, and later the resync goroutine puts the chain back.
FlushNat ==
  /\ count.flushes < MaxFlushes /\ chain
  /\ count' = [count EXCEPT !.flushes = @ + 1]
  /\ chain' = FALSE /\ snat' = {}
  /\ UNCHANGED <<leases, feed, tun, route, rule, pc, view, job, plan, dirty>>

ResyncChain ==
  /\ ~chain /\ pc = "run"
  /\ chain' = TRUE
  /\ UNCHANGED <<leases, feed, tun, route, rule, snat, pc, view, job, plan, dirty, count>>

Init ==
  /\ leases \in SUBSET Nets /\ feed = <<>>
  /\ tun = FALSE /\ route = {} /\ rule = {} /\ snat = {} /\ chain = FALSE
  /\ pc = "down" /\ local \in Locals /\ desired = {} /\ synced = FALSE /\ grace = FALSE
  /\ job = Idle /\ plan = NoPlan /\ dirty = FALSE
  /\ count = [changes |-> 0, fails |-> 0, stops |-> 0, flushes |-> 0]

Register == StartTransport \/ AcquireLease \/ ensureMeshRoute \/ (\E o \in Orders : StartRun(o))
Work == EnsureNext \/ ListStale \/ RemoveNext \/ AssertDone \/ Ensure \/ Remove
Shutdown == Cleanup \/ Close \/ Restart
Process == Register \/ handleEvents \/ reconcile \/ Work \/ Shutdown
Others == Cancel \/ Crash \/ FlushNat \/ (\E n \in Nets, f \in BOOLEAN : LeaseChange(n, f))

Next == Process \/ PruneGrace \/ ResyncChain \/ Others

Spec == Init /\ [][Next]_vars

\* The goroutine goes on, its select takes an event that stays ready, the clock runs,
\* and the traffic manager's resync runs.
FairSpec ==
  /\ Spec
  /\ WF_vars(Process) /\ SF_vars(handleEvents) /\ SF_vars(reconcile)
  /\ WF_vars(PruneGrace) /\ WF_vars(ResyncChain)

-----------------------------------------------------------------------------
\* Cleanup "removes everything this node installed": when no call failed in this run, a
\* stopped backend leaves nothing, not even what a crashed run before it, with another
\* subnet of its own, left behind.
CleanStop == pc = "stopped" /\ ~dirty => route = {} /\ rule = {} /\ snat = {}

\* While Run runs, the route of a leased subnet is only taken away if the event that
\* brings it back is still to come: a prune never blackholes a node.
RoutesKept ==
  [][\A n \in leases : pc = "run" /\ pc' = "run" /\ n \in route /\ n \notin route'
       => \E i \in DOMAIN feed : feed[i] = Ev("added", n)]_vars

\* The host state is what the leases say.
Converged ==
  /\ pc = "run"
  /\ route = leases \cup {Mesh} /\ rule = leases \cup {Mesh}
  /\ snat = leases \X {local}

\* "Reconcile drives the policy table towards exactly the set of remote PodCIDRs": after
\* the last failure, crash, flush and lease change it does, leases that disappeared
\* while flanneld was down included.
Converges == <>[]Converged
=============================================================================
