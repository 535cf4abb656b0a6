------------------------- MODULE MeshRoutes_proofs -------------------------
(***************************************************************************)
(* The safety theorems of MeshRoutes, for any set of other nodes and any   *)
(* number of lease changes, failing calls, crashes, stops and flushes; and *)
(* those of RouteNetwork, which keeps the routes of the other backends.    *)
(***************************************************************************)
EXTENDS MeshRoutes, RouteNetwork, TLAPS

Running == {"run", "cleansnat", "cleanroutes", "cleanrules", "close", "stopped"}

\* What a shutdown without a failing call has cleared by now. A SNAT rule names the
\* subnet of the run that wrote it, and Cleanup deletes only those of its own: it is
\* enough because main empties the chain before Run starts.
CleanInv ==
  /\ pc \in {"down", "lease", "meshroute", "traffic"} \cup Running
  /\ pc \in Running => \A s \in snat : s[2] = local
  /\ pc \in Running \ {"run", "cleansnat"} /\ ~dirty => snat = {}
  /\ pc \in {"cleanrules", "close", "stopped"} /\ ~dirty => route = {}
  /\ pc \in {"close", "stopped"} /\ ~dirty => rule = {}

\* The event that brings n back is in q, and none that takes it away comes after it.
Returns(n, q) ==
  \E i \in 1 .. Len(q) :
    q[i] = Ev("added", n) /\ \A j \in 1 .. Len(q) : j > i => q[j] # Ev("removed", n)

\* No event of q takes n away.
Stays(n, q) == \A i \in 1 .. Len(q) : q[i] # Ev("removed", n)

Announced(n, q) == \E i \in 1 .. Len(q) : q[i] = Ev("added", n)

EventType == [kind : {"added", "removed", "foreign"}, net : Nets]

\* A watch that begins feeds every lease. The last part proves it, from the library of
\* finite sets.
StartsFull ==
  \A order \in Orders :
    StartRun(order) => feed' \in Seq(EventType) /\ \A n \in leases : Returns(n, feed')

\* A leased subnet is desired or about to be; a removal under way of a leased subnet
\* is answered by an event still in the feed.
Expected == \A n \in leases : Returns(n, feed) \/ (n \in desired /\ Stays(n, feed))

RemovalsAnswered ==
  /\ job.k = "r1" /\ job.net \in leases => Announced(job.net, feed)
  /\ \A n \in plan.stale \cap leases : Announced(n, feed)

FeedInv ==
  /\ leases \subseteq Nets /\ feed \in Seq(EventType)
  /\ pc = "run" => Expected /\ RemovalsAnswered
  /\ job = [k |-> job.k, net |-> job.net]
  /\ plan = [mode |-> plan.mode, ensure |-> plan.ensure, stale |-> plan.stale]
  /\ pc # "run" => job = Idle /\ plan = NoPlan

-----------------------------------------------------------------------------
(* What an event at the end, or one less at the front, does to the feed.   *)

\* An event at the end hides nothing unless it takes n away.
LEMMA FeedGrows ==
  ASSUME NEW q \in Seq(EventType), NEW e \in EventType, NEW n
  PROVE  /\ Announced(n, q) => Announced(n, Append(q, e))
         /\ Returns(n, q) /\ e # Ev("removed", n) => Returns(n, Append(q, e))
         /\ Stays(n, q) /\ e # Ev("removed", n) => Stays(n, Append(q, e))
         /\ e = Ev("added", n) => Returns(n, Append(q, e))
  <1> DEFINE r == Append(q, e)
  <1>1. /\ Len(q) \in Nat /\ Len(r) = Len(q) + 1 /\ r[Len(q) + 1] = e
        /\ \A i \in 1 .. Len(q) : r[i] = q[i]
    OBVIOUS
  <1> HIDE DEF r
  <1>2. Announced(n, q) => Announced(n, r)
    BY <1>1 DEF Announced
  <1>3. Returns(n, q) /\ e # Ev("removed", n) => Returns(n, r)
    <2> SUFFICES ASSUME Returns(n, q), e # Ev("removed", n) PROVE Returns(n, r)
      BY Zenon
    <2>1. PICK i \in 1 .. Len(q) : /\ q[i] = Ev("added", n)
                                   /\ \A j \in 1 .. Len(q) : j > i => q[j] # Ev("removed", n)
      BY Zenon DEF Returns
    <2>2. i \in 1 .. Len(r) /\ r[i] = Ev("added", n)
      BY <1>1, <2>1
    <2>3. ASSUME NEW j \in 1 .. Len(r), j > i PROVE r[j] # Ev("removed", n)
      <3>1. j \in 1 .. Len(q) \/ j = Len(q) + 1
        BY <1>1
      <3> QED BY Zenon, <1>1, <2>1, <2>3, <3>1
    <2> QED BY Zenon, <2>2, <2>3 DEF Returns
  <1>4. Stays(n, q) /\ e # Ev("removed", n) => Stays(n, r)
    BY <1>1 DEF Stays
  <1>5. e = Ev("added", n) => Returns(n, r)
    BY <1>1 DEF Returns
  <1> QED BY Zenon, <1>2, <1>3, <1>4, <1>5 DEF r

\* Once the first event is handled, a subnet that was to return still is, or the event
\* that brought it back was the first and it stays.
LEMMA FeedShrinks ==
  ASSUME NEW q \in Seq(EventType), q # <<>>, NEW n
  PROVE  /\ Returns(n, q) => \/ Returns(n, Tail(q))
                             \/ Head(q) = Ev("added", n) /\ Stays(n, Tail(q))
         /\ Stays(n, q) => Stays(n, Tail(q)) /\ Head(q) # Ev("removed", n)
         /\ Tail(q) \in Seq(EventType) /\ Head(q) \in EventType
  <1> DEFINE r == Tail(q)
             h == Head(q)
  <1>1. /\ Len(q) \in Nat /\ Len(q) >= 1 /\ Len(r) = Len(q) - 1 /\ h = q[1]
        /\ \A i \in 1 .. Len(r) : r[i] = q[i + 1]
        /\ r \in Seq(EventType) /\ h \in EventType
    OBVIOUS
  <1> HIDE DEF r, h
  <1>2. Returns(n, q) => Returns(n, r) \/ (h = Ev("added", n) /\ Stays(n, r))
    <2> SUFFICES ASSUME Returns(n, q)
                 PROVE  Returns(n, r) \/ (h = Ev("added", n) /\ Stays(n, r))
      BY Zenon
    <2>1. PICK i \in 1 .. Len(q) : /\ q[i] = Ev("added", n)
                                   /\ \A j \in 1 .. Len(q) : j > i => q[j] # Ev("removed", n)
      BY Zenon DEF Returns
    <2>2. \A j \in 1 .. Len(r) : j + 1 > i => r[j] # Ev("removed", n)
      BY <1>1, <2>1
    <2>3. CASE i = 1
      <3>1. h = Ev("added", n)
        BY Zenon, <1>1, <2>1, <2>3
      <3>2. Stays(n, r)
        BY <1>1, <2>2, <2>3 DEF Stays
      <3> QED BY Zenon, <3>1, <3>2
    <2>4. CASE i > 1
      <3>1. i - 1 \in 1 .. Len(r) /\ r[i - 1] = Ev("added", n)
        BY <1>1, <2>1, <2>4
      <3>2. \A j \in 1 .. Len(r) : j > i - 1 => r[j] # Ev("removed", n)
        BY <1>1, <2>2
      <3> QED BY Zenon, <3>1, <3>2 DEF Returns
    <2> QED BY <1>1, <2>3, <2>4
  <1>3. Stays(n, q) => Stays(n, r) /\ h # Ev("removed", n)
    BY <1>1 DEF Stays
  <1> QED BY Zenon, <1>1, <1>2, <1>3 DEF r, h

-----------------------------------------------------------------------------
(* A clean stop.                                                           *)

\* Init: nothing is on the host.
LEMMA CleanInit == Init => CleanInv
  BY Zenon DEF Init, CleanInv, Running

\* The shutdown clears one kind of state after the other, and what it has cleared stays
\* so: only a running backend writes, and only a start forgets that a call failed.
LEMMA CleanStep == CleanInv /\ [Next]_vars => CleanInv'
  <1> SUFFICES ASSUME CleanInv, [Next]_vars PROVE CleanInv'
    BY Zenon
  <1>1. ASSUME UNCHANGED <<pc, snat, local, dirty, route, rule>> PROVE CleanInv'
    BY Zenon, <1>1 DEF CleanInv
  <1>2. ASSUME pc' \in {"down", "lease", "meshroute", "traffic"} PROVE CleanInv'
    BY Zenon, <1>2 DEF CleanInv, Running
  <1>3. ASSUME pc = "run", pc' = "run", \A s \in snat' : s[2] = local' PROVE CleanInv'
    BY Zenon, <1>3 DEF CleanInv, Running
  <1>4. CASE Register
    <2>1. CASE StartTransport \/ AcquireLease \/ ensureMeshRoute
      BY Zenon, <1>2, <2>1 DEF StartTransport, AcquireLease, ensureMeshRoute
    <2>2. ASSUME NEW o \in Orders, StartRun(o) PROVE CleanInv'
      BY Zenon, <2>2 DEF StartRun, CleanInv, Running
    <2> QED BY Zenon, <1>4, <2>1, <2>2 DEF Register
  <1>5. CASE handleEvents
    BY Zenon, <1>1, <1>5 DEF handleEvents, host
  <1>6. CASE reconcile
    BY Zenon, <1>1, <1>6 DEF reconcile, host, view
  <1>7. CASE Work
    <2>1. CASE EnsureNext \/ RemoveNext \/ AssertDone
      BY Zenon, <1>1, <2>1 DEF EnsureNext, RemoveNext, AssertDone, host, view
    <2>2. CASE ListStale
      <3>1. pc = "run" /\ pc' = pc /\ snat' = snat /\ local' = local
        BY Zenon, <2>2 DEF ListStale, host, view
      <3> QED BY Zenon, <1>3, <3>1 DEF CleanInv, Running
    <2>3. CASE Ensure \/ Remove
      <3>1. pc = "run" /\ pc' = pc /\ local' = local /\ \A s \in snat : s[2] = local
        BY Zenon, <2>3 DEF Ensure, Remove, view, CleanInv, Running
      <3>2. \A s \in snat' : s \in snat \/ s = <<job.net, local>>
        BY Zenon, <2>3 DEF Ensure, Remove
      <3> QED BY <1>3, <3>1, <3>2
    <2> QED BY Zenon, <1>7, <2>1, <2>2, <2>3 DEF Work
  <1>8. CASE Shutdown
    <2>1. CASE Cleanup
      <3>1. local' = local
        BY Zenon, <2>1 DEF Cleanup, view
      <3>2. CASE pc = "cleansnat"
        BY Zenon, <2>1, <3>1, <3>2 DEF Cleanup, CleanInv, Running, Fine, Fail
      <3>3. CASE pc = "cleanroutes"
        BY <2>1, <3>1, <3>3 DEF Cleanup, CleanInv, Running, Fine, Fail
      <3>4. CASE pc = "cleanrules"
        BY <2>1, <3>1, <3>4 DEF Cleanup, CleanInv, Running, Fine, Fail
      <3> QED BY Zenon, <2>1, <3>2, <3>3, <3>4 DEF Cleanup
    <2>2. CASE Close
      BY Zenon, <2>2 DEF Close, CloseTransport, CleanInv, Running, view
    <2>3. CASE Restart
      BY Zenon, <1>2, <2>3 DEF Restart
    <2> QED BY Zenon, <1>8, <2>1, <2>2, <2>3 DEF Shutdown
  <1>9. CASE PruneGrace \/ ResyncChain
    BY Zenon, <1>1, <1>9 DEF PruneGrace, ResyncChain, host, view
  <1>10. CASE Others
    <2>1. CASE Cancel
      BY Zenon, <2>1 DEF Cancel, Free, CleanInv, Running, host, view
    <2>2. CASE Crash
      BY Zenon, <1>2, <2>2 DEF Crash
    <2>3. CASE FlushNat
      BY Zenon, <2>3 DEF FlushNat, CleanInv, view
    <2>4. ASSUME NEW n \in Nets, NEW f \in BOOLEAN, LeaseChange(n, f) PROVE CleanInv'
      BY Zenon, <1>1, <2>4 DEF LeaseChange, host, view
    <2> QED BY Zenon, <1>10, <2>1, <2>2, <2>3, <2>4 DEF Others
  <1>11. CASE UNCHANGED vars
    BY Zenon, <1>1, <1>11 DEF vars, host, view
  <1> QED BY Zenon, <1>4, <1>5, <1>6, <1>7, <1>8, <1>9, <1>10, <1>11 DEF Next, Process

\* Cleanup "removes everything this node installed" when no call of this run failed,
\* whatever earlier runs with other subnets left on the host when they crashed.
THEOREM StopsClean == Spec => []CleanStop
  <1>1. CleanInv => CleanStop
    BY Zenon DEF CleanInv, CleanStop, Running
  <1> QED BY <1>1, CleanInit, CleanStep, PTL DEF Spec

-----------------------------------------------------------------------------
(* No route of a leased subnet is lost.                                    *)

\* Init: the backend does not run.
LEMMA FeedInit == Init => FeedInv
  BY DEF Init, FeedInv, Idle, NoPlan

\* A step that leaves leases, events and desired subnets alone, and starts no removal.
LEMMA NoNewRemoval ==
  ASSUME FeedInv, pc = "run", leases' = leases, feed' = feed, desired' = desired, pc' = "run",
         job' = [k |-> job'.k, net |-> job'.net],
         plan' = [mode |-> plan'.mode, ensure |-> plan'.ensure, stale |-> plan'.stale],
         job'.k = "r1" => job' = job \/ job'.net \in plan.stale,
         plan'.stale \subseteq plan.stale
  PROVE  FeedInv'
  <1>1. Expected /\ RemovalsAnswered
    BY Zenon DEF FeedInv
  <1>2. Expected'
    BY Zenon, <1>1 DEF Expected
  <1>3. RemovalsAnswered'
    BY Zenon, <1>1 DEF RemovalsAnswered
  <1> QED BY Zenon, <1>2, <1>3 DEF FeedInv

\* An event is handled when nothing is under way; if it takes a leased subnet away, the
\* one that brings it back comes later.
LEMMA HandleKeeps == ASSUME FeedInv, handleEvents PROVE FeedInv'
  <1> DEFINE e == Head(feed)
  <1>1. /\ feed # <<>> /\ feed \in Seq(EventType) /\ feed' = Tail(feed)
        /\ leases' = leases /\ pc = "run" /\ pc' = pc /\ plan = NoPlan /\ plan' = plan
        /\ leases \subseteq Nets /\ Expected
    BY Zenon DEF handleEvents, Free, FeedInv
  <1>2. /\ e.kind = "added" => desired' = desired \cup {e.net} /\ job' = [k |-> "e1", net |-> e.net]
        /\ e.kind = "removed" => desired' = desired \ {e.net} /\ job' = [k |-> "r1", net |-> e.net]
        /\ e.kind = "foreign" => desired' = desired /\ job' = Idle
    BY Zenon DEF handleEvents
  <1>3. feed' \in Seq(EventType) /\ e \in EventType
    BY Zenon, <1>1, FeedShrinks
  <1> HIDE DEF e
  <1>4. e = Ev(e.kind, e.net) /\ e.kind \in {"added", "removed", "foreign"}
    BY Zenon, <1>3 DEF EventType, Ev
  <1>5. ASSUME NEW n \in leases
        PROVE  Returns(n, feed') \/ (n \in desired' /\ Stays(n, feed') /\ e # Ev("removed", n))
    <2>1. CASE Returns(n, feed)
      <3>1. Returns(n, feed') \/ (e = Ev("added", n) /\ Stays(n, feed'))
        BY Zenon, <1>1, <2>1, FeedShrinks DEF e
      <3>2. ASSUME e = Ev("added", n) PROVE n \in desired' /\ e # Ev("removed", n)
        BY Zenon, <1>2, <3>2 DEF Ev
      <3> QED BY Zenon, <3>1, <3>2
    <2>2. CASE n \in desired /\ Stays(n, feed)
      <3>1. Stays(n, feed') /\ e # Ev("removed", n)
        BY Zenon, <1>1, <2>2, FeedShrinks DEF e
      <3>2. n \in desired'
        BY Zenon, <1>2, <1>4, <2>2, <3>1 DEF Ev
      <3> QED BY Zenon, <3>1, <3>2
    <2> QED BY Zenon, <1>1, <2>1, <2>2 DEF Expected
  <1>6. Expected'
    BY Zenon, <1>1, <1>5 DEF Expected
  <1>7. job' = [k |-> job'.k, net |-> job'.net]
    BY Zenon, <1>2, <1>4 DEF Idle
  <1>8. RemovalsAnswered'
    <2>1. plan'.stale = {}
      BY Zenon, <1>1 DEF NoPlan
    <2>2. ASSUME job'.k = "r1", job'.net \in leases PROVE Announced(job'.net, feed')
      <3>1. e = Ev("removed", job'.net)
        BY <1>2, <1>4, <2>2 DEF Idle
      <3>2. Returns(job'.net, feed')
        BY Zenon, <1>5, <2>2, <3>1
      <3> QED BY Zenon, <3>2 DEF Returns, Announced
    <2> QED BY Zenon, <1>1, <2>1, <2>2 DEF RemovalsAnswered
  <1>9. plan' = [mode |-> plan'.mode, ensure |-> plan'.ensure, stale |-> plan'.stale]
    BY Zenon, <1>1 DEF FeedInv
  <1> QED BY Zenon, <1>1, <1>3, <1>6, <1>7, <1>8, <1>9 DEF FeedInv

\* The event of a lease change is queued, so a subnet that is leased again under a
\* removal is announced.
LEMMA ChangeKeeps ==
  ASSUME FeedInv, NEW n \in Nets, NEW foreign \in BOOLEAN, LeaseChange(n, foreign)
  PROVE  FeedInv'
  <1>1. /\ pc' = pc /\ job' = job /\ plan' = plan /\ desired' = desired
        /\ feed \in Seq(EventType) /\ leases \subseteq Nets
    BY Zenon DEF LeaseChange, view, FeedInv
  <1>2. PICK k \in {"added", "removed", "foreign"} :
          /\ feed' = IF pc # "run" THEN feed ELSE Append(feed, Ev(k, n))
          /\ k = "foreign" => leases' = leases
          /\ k = "removed" => leases' = leases \ {n}
          /\ k = "added" => leases' = leases \cup {n}
    <2>1. CASE foreign
      BY Zenon, <2>1 DEF LeaseChange
    <2>2. CASE ~foreign /\ n \in leases
      BY Zenon, <2>2 DEF LeaseChange
    <2>3. CASE ~foreign /\ n \notin leases
      BY Zenon, <2>3 DEF LeaseChange
    <2> QED BY Zenon, <2>1, <2>2, <2>3
  <1>3. leases' \subseteq Nets
    BY Zenon, <1>1, <1>2
  <1>4. CASE pc # "run"
    BY Zenon, <1>1, <1>2, <1>3, <1>4 DEF FeedInv
  <1>5. CASE pc = "run"
    <2> DEFINE e == Ev(k, n)
    <2>1. e \in EventType
      BY Zenon DEF Ev, EventType
    <2>2. feed' = Append(feed, e) /\ feed' \in Seq(EventType)
      BY <1>1, <1>2, <1>5, <2>1
    <2>3. Expected /\ RemovalsAnswered
      BY Zenon, <1>5 DEF FeedInv
    <2>4. ASSUME NEW m \in leases'
          PROVE  \/ m \in leases /\ e # Ev("removed", m)
                 \/ e = Ev("added", m)
      BY Zenon, <1>2, <2>4 DEF Ev
    <2> HIDE DEF e
    <2>5. ASSUME NEW m \in leases'
          PROVE  Returns(m, feed') \/ (m \in desired' /\ Stays(m, feed'))
      BY Zenon, <1>1, <2>1, <2>2, <2>3, <2>4, FeedGrows DEF Expected
    <2>6. ASSUME NEW m \in leases', m \in leases => Announced(m, feed) PROVE Announced(m, feed')
      <3>1. Announced(m, feed) \/ e = Ev("added", m)
        BY Zenon, <2>4, <2>6
      <3>2. Announced(m, feed') \/ Returns(m, feed')
        BY Zenon, <1>1, <2>1, <2>2, <3>1, FeedGrows
      <3> QED BY Zenon, <3>2 DEF Returns, Announced
    <2>7. Expected'
      BY Zenon, <2>5 DEF Expected
    <2>8. RemovalsAnswered'
      BY Zenon, <1>1, <2>3, <2>6 DEF RemovalsAnswered
    <2> QED BY Zenon, <1>1, <1>3, <2>2, <2>7, <2>8 DEF FeedInv
  <1> QED BY Zenon, <1>4, <1>5

\* What is stale is not desired: if it is leased all the same, its event is to come.
LEMMA ListKeeps == ASSUME FeedInv, ListStale PROVE FeedInv'
  <1>1. /\ pc = "run" /\ pc' = "run" /\ leases' = leases /\ feed' = feed
        /\ desired' = desired /\ job' = job /\ job = [k |-> job.k, net |-> job.net]
        /\ leases \subseteq Nets /\ feed \in Seq(EventType) /\ Expected /\ RemovalsAnswered
    BY Zenon DEF ListStale, view, FeedInv
  <1>2. /\ plan' = [mode |-> plan'.mode, ensure |-> plan'.ensure, stale |-> plan'.stale]
        /\ plan'.stale \cap desired = {}
    BY DEF ListStale, NoPlan, staleDestinations
  <1>3. \A n \in leases \ desired : Announced(n, feed)
    BY Zenon, <1>1 DEF Expected, Returns, Announced
  <1>4. Expected'
    BY Zenon, <1>1 DEF Expected
  <1>5. RemovalsAnswered'
    BY Zenon, <1>1, <1>2, <1>3 DEF RemovalsAnswered
  <1> QED BY Zenon, <1>1, <1>2, <1>4, <1>5 DEF FeedInv

\* The calls of an Ensure or a Remove go on to another call or end.
LEMMA CallsKeep == ASSUME FeedInv, Ensure \/ Remove PROVE FeedInv'
  <1>1. /\ pc = "run" /\ pc' = "run" /\ leases' = leases /\ feed' = feed
        /\ desired' = desired /\ plan' = plan /\ job = [k |-> job.k, net |-> job.net]
        /\ plan = [mode |-> plan.mode, ensure |-> plan.ensure, stale |-> plan.stale]
    BY Zenon DEF Ensure, Remove, view, FeedInv
  <1>2. job.k \in {"e1", "e2", "e3", "r1", "r2", "r3"} /\ job' \in {Idle, Step(job.k)}
    BY Zenon DEF Ensure, Remove
  <1>3. job' = [k |-> job'.k, net |-> job'.net] /\ job'.k # "r1"
    BY <1>1, <1>2 DEF Step, After, Idle
  <1> QED BY Zenon, <1>1, <1>3, NoNewRemoval

\* Every step keeps the invariant.
LEMMA FeedStep == FeedInv /\ StartsFull /\ [Next]_vars => FeedInv'
  <1> SUFFICES ASSUME FeedInv, StartsFull, [Next]_vars PROVE FeedInv'
    BY Zenon
  <1>0. /\ leases \subseteq Nets /\ feed \in Seq(EventType)
        /\ job = [k |-> job.k, net |-> job.net]
        /\ plan = [mode |-> plan.mode, ensure |-> plan.ensure, stale |-> plan.stale]
        /\ pc # "run" => job = Idle /\ plan = NoPlan
    BY Zenon DEF FeedInv
  <1>1. ASSUME UNCHANGED <<leases, feed, pc, desired, job, plan>> PROVE FeedInv'
    BY Zenon, <1>1 DEF FeedInv, Expected, RemovalsAnswered
  <1>2. ASSUME pc' # "run", pc # "run" \/ Free, UNCHANGED <<leases, feed, job, plan>>
        PROVE  FeedInv'
    BY Zenon, <1>0, <1>2 DEF FeedInv, Free
  <1>3. CASE Register
    <2>1. CASE StartTransport \/ AcquireLease \/ ensureMeshRoute
      BY Zenon, <1>2, <2>1 DEF StartTransport, AcquireLease, ensureMeshRoute
    <2>2. ASSUME NEW o \in Orders, StartRun(o) PROVE FeedInv'
      <3>1. /\ leases' = leases /\ job' = Idle /\ plan' = NoPlan /\ pc' = "run"
            /\ job' = job /\ plan' = plan
        BY Zenon, <1>0, <2>2 DEF StartRun
      <3>2. feed' \in Seq(EventType) /\ \A n \in leases : Returns(n, feed')
        BY Zenon, <2>2 DEF StartsFull
      <3>3. Expected'
        BY Zenon, <3>1, <3>2 DEF Expected
      <3>4. RemovalsAnswered'
        BY <3>1 DEF RemovalsAnswered, Idle, NoPlan
      <3> QED BY Zenon, <1>0, <3>1, <3>2, <3>3, <3>4 DEF FeedInv
    <2> QED BY Zenon, <1>3, <2>1, <2>2 DEF Register
  <1>4. CASE reconcile
    <2>1. /\ pc = "run" /\ pc' = "run" /\ leases' = leases /\ feed' = feed /\ desired' = desired
          /\ job' = job
      BY Zenon, <1>4 DEF reconcile, Free, view
    <2>2. /\ plan'.stale = {}
          /\ plan' = [mode |-> plan'.mode, ensure |-> plan'.ensure, stale |-> plan'.stale]
      BY Zenon, <1>4 DEF reconcile
    <2> QED BY Zenon, <1>0, <2>1, <2>2, NoNewRemoval
  <1>5. CASE EnsureNext
    <2>1. /\ pc = "run" /\ pc' = "run" /\ leases' = leases /\ feed' = feed /\ desired' = desired
      BY Zenon, <1>5 DEF EnsureNext, view
    <2>2. PICK n \in plan.ensure :
            /\ job' = [k |-> "e1", net |-> n]
            /\ plan' = [plan EXCEPT !.ensure = @ \ {n}]
      BY Zenon, <1>5 DEF EnsureNext
    <2>3. job' = [k |-> job'.k, net |-> job'.net] /\ job'.k # "r1"
      BY Zenon, <2>2
    <2>4. /\ plan' = [mode |-> plan'.mode, ensure |-> plan'.ensure, stale |-> plan'.stale]
          /\ plan'.stale = plan.stale
      BY Zenon, <1>0, <2>2
    <2> QED BY Zenon, <2>1, <2>3, <2>4, NoNewRemoval
  <1>6. CASE RemoveNext
    <2>1. /\ pc = "run" /\ pc' = "run" /\ leases' = leases /\ feed' = feed /\ desired' = desired
      BY Zenon, <1>6 DEF RemoveNext, view
    <2>2. PICK n \in plan.stale :
            /\ job' = [k |-> "r1", net |-> n]
            /\ plan' = IF plan.stale = {n} THEN NoPlan ELSE [plan EXCEPT !.stale = @ \ {n}]
      BY Zenon, <1>6 DEF RemoveNext
    <2>3. job' = [k |-> job'.k, net |-> job'.net] /\ job'.net \in plan.stale
      BY Zenon, <2>2
    <2>4. /\ plan' = [mode |-> plan'.mode, ensure |-> plan'.ensure, stale |-> plan'.stale]
          /\ plan'.stale \subseteq plan.stale
      BY Zenon, <1>0, <2>2 DEF NoPlan
    <2> QED BY Zenon, <2>1, <2>3, <2>4, NoNewRemoval
  <1>7. CASE AssertDone
    <2>1. /\ pc = "run" /\ pc' = "run" /\ leases' = leases /\ feed' = feed /\ desired' = desired
          /\ job' = job
      BY Zenon, <1>7 DEF AssertDone, view
    <2>2. /\ plan'.stale = {}
          /\ plan' = [mode |-> plan'.mode, ensure |-> plan'.ensure, stale |-> plan'.stale]
      BY Zenon, <1>7 DEF AssertDone, NoPlan
    <2> QED BY Zenon, <1>0, <2>1, <2>2, NoNewRemoval
  <1>8. CASE Work
    BY Zenon, <1>5, <1>6, <1>7, <1>8, ListKeeps, CallsKeep DEF Work
  <1>9. CASE Shutdown
    <2>1. CASE Cleanup
      <3>1. pc # "run" /\ UNCHANGED <<leases, feed, job, plan>>
        BY Zenon, <2>1 DEF Cleanup
      <3>2. pc' # "run"
        BY <2>1 DEF Cleanup
      <3> QED BY Zenon, <1>2, <3>1, <3>2
    <2>2. CASE Close \/ Restart
      BY Zenon, <1>2, <2>2 DEF Close, Restart
    <2> QED BY Zenon, <1>9, <2>1, <2>2 DEF Shutdown
  <1>10. CASE PruneGrace \/ ResyncChain \/ FlushNat
    BY Zenon, <1>1, <1>10 DEF PruneGrace, ResyncChain, FlushNat, view
  <1>11. CASE Cancel
    BY Zenon, <1>2, <1>11 DEF Cancel
  <1>12. CASE Crash
    <2>1. leases' = leases /\ pc' = "down" /\ job' = Idle /\ plan' = NoPlan
      BY Zenon, <1>12 DEF Crash
    <2>2. feed' \in Seq(EventType)
      BY <1>12 DEF Crash
    <2> QED BY Zenon, <1>0, <2>1, <2>2 DEF FeedInv, Idle, NoPlan
  <1>13. CASE Others
    BY Zenon, <1>10, <1>11, <1>12, <1>13, ChangeKeeps DEF Others
  <1>14. CASE UNCHANGED vars
    BY Zenon, <1>1, <1>14 DEF vars, view
  <1> QED BY Zenon, <1>3, <1>4, <1>8, <1>9, <1>10, <1>13, <1>14, HandleKeeps DEF Next, Process

-----------------------------------------------------------------------------
(* The routes of RouteNetwork, which the other backends use. For any       *)
(* destinations, gateways and bounds the list of routes keeps its shape    *)
(* and always holds the route of every current lease.                      *)

\* The part of TypeOK that is about the handler's data, and what CurrentListed needs.
ListInv ==
  /\ lease \in [Dsts -> Gws \cup {Foreign, NoGw}]
  /\ arr \in Seq(Route) /\ len \in 0 .. Len(arr)
  /\ \A i, j \in 1 .. len : arr[i] = arr[j] => i = j

\* addToRouteList keeps the list well formed and adds the route.
LEMMA AddLemma ==
  ASSUME ListInv, NEW r \in Route, addToRouteList(r)
  PROVE  /\ arr' \in Seq(Route) /\ len' \in 0 .. Len(arr') /\ Len(arr) <= Len(arr')
         /\ \A i, j \in 1 .. len' : arr'[i] = arr'[j] => i = j
         /\ r \in Entries' /\ Entries \subseteq Entries'
<1>1. CASE r \in Entries
  BY <1>1 DEF ListInv, addToRouteList, Entries
<1>2. CASE r \notin Entries /\ len < Len(arr)
  <2>1. arr' = [arr EXCEPT ![len + 1] = r] /\ len' = len + 1
    BY Zenon, <1>2 DEF addToRouteList
  <2>2. arr' \in Seq(Route) /\ Len(arr') = Len(arr) /\ arr'[len + 1] = r
        /\ \A i \in 1 .. len : arr'[i] = arr[i]
    BY <1>2, <2>1 DEF ListInv
  <2> QED BY <1>2, <2>1, <2>2 DEF ListInv, Entries
<1>3. CASE r \notin Entries /\ ~ (len < Len(arr))
  <2>1. arr' = Append(arr, r) /\ len' = len + 1 /\ len = Len(arr)
    BY <1>3 DEF addToRouteList, ListInv
  <2>2. arr' \in Seq(Route) /\ Len(arr') = Len(arr) + 1 /\ arr'[len + 1] = r
        /\ \A i \in 1 .. len : arr'[i] = arr[i]
    BY <2>1 DEF ListInv
  <2> QED BY <1>3, <2>1, <2>2 DEF ListInv, Entries
<1> QED BY Zenon, <1>1, <1>2, <1>3

\* removeFromRouteList keeps the list well formed and removes no other route.
LEMMA RemoveLemma ==
  ASSUME ListInv, NEW r \in Route, removeFromRouteList(r)
  PROVE  /\ arr' \in Seq(Route) /\ len' \in 0 .. Len(arr') /\ Len(arr) = Len(arr')
         /\ \A i, j \in 1 .. len' : arr'[i] = arr'[j] => i = j
         /\ \A e \in Entries : e # r => e \in Entries'
<1>1. CASE ~ \E i \in 1 .. len : routeEqual(arr[i], r)
  BY Zenon, <1>1 DEF ListInv, removeFromRouteList, Entries
<1>2. CASE \E i \in 1 .. len : routeEqual(arr[i], r)
  <2> DEFINE k == CHOOSE j \in 1 .. len : routeEqual(arr[j], r)
  <2>1. k \in 1 .. len /\ arr[k] = r
    BY Zenon, <1>2 DEF routeEqual
  <2>2. /\ arr' = [j \in DOMAIN arr |-> IF k <= j /\ j < len THEN arr[j + 1] ELSE arr[j]]
        /\ len' = len - 1
    BY Zenon, <1>2 DEF removeFromRouteList
  <2> HIDE DEF k
  <2>3. DOMAIN arr = 1 .. Len(arr) /\ \A j \in 1 .. Len(arr) : arr[j] \in Route
    BY DEF ListInv
  <2>4. \A j \in DOMAIN arr : (IF k <= j /\ j < len THEN arr[j + 1] ELSE arr[j]) \in Route
    BY <2>1, <2>3 DEF ListInv
  <2>5. arr' \in [1 .. Len(arr) -> Route]
    BY Zenon, <2>2, <2>3, <2>4
  <2>6. arr' \in Seq(Route) /\ Len(arr') = Len(arr)
    BY <2>5 DEF ListInv
  <2>7. \A j \in 1 .. len - 1 : arr'[j] = arr[IF k <= j THEN j + 1 ELSE j]
    BY <2>1, <2>2, <2>3 DEF ListInv
  <2>8. \A i, j \in 1 .. len' : arr'[i] = arr'[j] => i = j
    BY <2>1, <2>2, <2>7 DEF ListInv
  <2>9. ASSUME NEW e \in Entries, e # r PROVE e \in Entries'
    <3>1. PICK i \in 1 .. len : arr[i] = e
      BY Zenon, <2>9 DEF Entries
    <3>2. CASE i < k
      <4>1. i \in 1 .. len - 1 /\ ~(k <= i)
        BY <3>1, <3>2, <2>1 DEF ListInv
      <4>2. arr'[i] = arr[i]
        BY Zenon, <4>1, <2>7
      <4> QED BY Zenon, <4>1, <4>2, <3>1, <2>2 DEF Entries
    <3>3. CASE i > k
      <4>1. i - 1 \in 1 .. len - 1 /\ k <= i - 1
        BY <3>1, <3>3, <2>1 DEF ListInv
      <4>2. arr'[i - 1] = arr[i]
        BY <4>1, <2>7 DEF ListInv
      <4> QED BY Zenon, <4>1, <4>2, <3>1, <2>2 DEF Entries
    <3> QED BY <3>1, <3>2, <3>3, <2>1, <2>9 DEF ListInv
  <2> QED BY <2>2, <2>6, <2>8, <2>9, <2>1 DEF ListInv
<1> QED BY Zenon, <1>1, <1>2

-----------------------------------------------------------------------------
RInv == TypeOK /\ HandlerCurrent /\ CurrentListed

\* The inductive invariant holds initially.
LEMMA RInit == ASSUME RouteInit PROVE RInv
BY RouteAssumption
   DEF RouteInit, RInv, TypeOK, HandlerStates, CheckStates, HandlerCurrent,
       CurrentListed, Entries, AtRest, Route

\* An event that adds a lease.
LEMMA AddedStep ==
  ASSUME RInv, NEW d \in Dsts, NEW g \in Gws \cup {Foreign}, EventAdded(d, g)
  PROVE  RInv'
<1> DEFINE r == [dst |-> d, gw |-> g]
<1>0. ListInv BY Zenon DEF RInv, TypeOK, ListInv
<1>1. CASE g = Foreign
  <2>1. UNCHANGED <<arr, len, handler, kernel, check>> /\ handler = AtRest
        /\ lease' = [lease EXCEPT ![d] = Foreign]
    BY Zenon, <1>1 DEF EventAdded
  <2> QED BY <2>1, RouteAssumption
             DEF RInv, TypeOK, HandlerCurrent, CurrentListed, Entries, AtRest
<1>2. CASE g # Foreign
  <2>1. r \in Route BY Zenon, <1>2 DEF Route
  <2>2. /\ addToRouteList(r) /\ lease' = [lease EXCEPT ![d] = g]
        /\ handler' = [pc |-> "list", r |-> r] /\ UNCHANGED <<kernel, check>>
    BY Zenon, <1>2 DEF EventAdded
  <2>3. /\ arr' \in Seq(Route) /\ len' \in 0 .. Len(arr') /\ Len(arr) <= Len(arr')
        /\ \A i, j \in 1 .. len' : arr'[i] = arr'[j] => i = j
        /\ r \in Entries' /\ Entries \subseteq Entries'
    BY Zenon, <1>0, <2>1, <2>2, AddLemma
  <2> HIDE DEF r
  <2>4. TypeOK'
    <3>1. handler' \in HandlerStates' BY Zenon, <2>1, <2>2 DEF HandlerStates, Route
    <3>2. lease' \in [Dsts -> Gws \cup {Foreign, NoGw}]
      BY Zenon, <2>2 DEF RInv, TypeOK
    <3>3. check' # AtRest => check'.n <= Len(arr')
      <4>1. check # AtRest => check.n \in Nat BY Zenon DEF RInv, TypeOK, CheckStates, AtRest
      <4> QED BY <4>1, <2>2, <2>3, <1>0 DEF RInv, TypeOK, ListInv
    <3> QED BY Zenon, <2>2, <2>3, <3>1, <3>2, <3>3
            DEF RInv, TypeOK, CheckStates, HandlerStates, AtRest, Route
  <2>5. HandlerCurrent'
    <3>1. r.dst = d /\ r.gw = g BY Zenon DEF r
    <3> QED BY Zenon, <2>2, <3>1 DEF HandlerCurrent, RInv, TypeOK
  <2>6. CurrentListed'
    <3> SUFFICES ASSUME NEW x \in Dsts, lease'[x] \in Gws
                 PROVE  [dst |-> x, gw |-> lease'[x]] \in Entries'
      BY Zenon DEF CurrentListed
    <3>1. CASE x = d BY Zenon, <2>2, <2>3, <3>1 DEF RInv, TypeOK, r
    <3>2. CASE x # d BY Zenon, <2>2, <2>3, <3>2 DEF RInv, TypeOK, CurrentListed
    <3> QED BY Zenon, <3>1, <3>2
  <2> QED BY Zenon, <2>4, <2>5, <2>6 DEF RInv
<1> QED BY Zenon, <1>1, <1>2

\* Taking a route off the list that is not the route of a lease after the step.
LEMMA ShrinkStep ==
  ASSUME RInv, NEW r \in Route, removeFromRouteList(r),
         lease' \in [Dsts -> Gws \cup {Foreign, NoGw}],
         \A x \in Dsts : lease'[x] \in Gws => lease'[x] = lease[x] /\ [dst |-> x, gw |-> lease[x]] # r,
         UNCHANGED <<kernel, check>>, handler' \in HandlerStates, HandlerCurrent'
  PROVE  RInv'
<1>0. ListInv BY Zenon DEF RInv, TypeOK, ListInv
<1>1. /\ arr' \in Seq(Route) /\ len' \in 0 .. Len(arr') /\ Len(arr) = Len(arr')
      /\ \A i, j \in 1 .. len' : arr'[i] = arr'[j] => i = j
      /\ \A e \in Entries : e # r => e \in Entries'
  BY Zenon, <1>0, RemoveLemma
<1>2. TypeOK'
  BY Zenon, <1>1 DEF RInv, TypeOK, CheckStates, HandlerStates, AtRest, Route
<1>3. CurrentListed'
  BY Zenon, <1>1 DEF RInv, CurrentListed
<1> QED BY Zenon, <1>2, <1>3 DEF RInv

\* An event that removes a lease.
LEMMA RemovedStep ==
  ASSUME RInv, NEW d \in Dsts, EventRemoved(d)
  PROVE  RInv'
<1>1. CASE lease[d] = Foreign
  <2>1. UNCHANGED <<arr, len, handler, kernel, check>> /\ handler = AtRest
        /\ lease' = [lease EXCEPT ![d] = NoGw]
    BY Zenon, <1>1 DEF EventRemoved
  <2> QED BY <2>1, RouteAssumption
             DEF RInv, TypeOK, HandlerCurrent, CurrentListed, Entries, AtRest
<1>2. CASE lease[d] # Foreign
  <2> DEFINE r == [dst |-> d, gw |-> lease[d]]
  <2>1. r \in Route BY Zenon, <1>2 DEF Route, RInv, TypeOK, EventRemoved
  <2>2. /\ removeFromRouteList(r) /\ lease' = [lease EXCEPT ![d] = NoGw]
        /\ handler' = [pc |-> "del", r |-> r] /\ UNCHANGED <<kernel, check>>
    BY Zenon, <1>2 DEF EventRemoved
  <2>3. handler' \in HandlerStates /\ HandlerCurrent'
    BY Zenon, <2>1, <2>2 DEF HandlerStates, HandlerCurrent
  <2>4. lease' \in [Dsts -> Gws \cup {Foreign, NoGw}] BY Zenon, <2>2 DEF RInv, TypeOK
  <2>5. \A x \in Dsts : lease'[x] \in Gws =>
           lease'[x] = lease[x] /\ [dst |-> x, gw |-> lease[x]] # r
    BY Zenon, <2>2, RouteAssumption DEF RInv, TypeOK
  <2> QED BY Zenon, <2>1, <2>2, <2>3, <2>4, <2>5, ShrinkStep
<1> QED BY Zenon, <1>1, <1>2

\* A step that leaves the leases and the list alone keeps the invariant when what it
\* leaves in the kernel, the handler and the check is typed and the handler still works
\* for the current lease.
LEMMA ListUnchanged ==
  ASSUME RInv, UNCHANGED <<lease, arr, len>>,
         kernel' \in [Dsts -> Gws \cup {NoGw}],
         handler' \in HandlerStates, HandlerCurrent',
         check' \in CheckStates, check' # AtRest => check'.n <= Len(arr)
  PROVE  RInv'
<1>1. CurrentListed'
  <2>1. UNCHANGED lease /\ Entries' = Entries BY Zenon DEF Entries
  <2> QED BY Zenon, <2>1 DEF RInv, CurrentListed
<1>2. TypeOK'
  <2>1. HandlerStates' = HandlerStates /\ CheckStates' = CheckStates
    BY Zenon DEF HandlerStates, CheckStates, AtRest, Route
  <2>2. AtRest' = AtRest BY Zenon DEF AtRest
  <2>3. /\ lease' \in [Dsts -> Gws \cup {Foreign, NoGw}]
        /\ arr' \in Seq(Route)
        /\ len' \in 0 .. Len(arr')
        /\ \A i, j \in 1 .. len' : arr'[i] = arr'[j] => i = j
    BY Zenon DEF RInv, TypeOK
  <2>4. check' # AtRest => check'.n <= Len(arr') BY Zenon
  <2>5. Route' = Route BY Zenon DEF Route
  <2> QED BY Zenon, <2>1, <2>2, <2>3, <2>4, <2>5 DEF TypeOK
<1> QED BY Zenon, <1>1, <1>2 DEF RInv

\* What RInv says of the kernel, the handler and the check.
LEMMA ListUnchangedParts ==
  ASSUME RInv
  PROVE  /\ kernel \in [Dsts -> Gws \cup {NoGw}] /\ handler \in HandlerStates
         /\ HandlerCurrent /\ check \in CheckStates
         /\ check # AtRest => check.n <= Len(arr)
BY Zenon DEF RInv, TypeOK

\* The steps of routeAdd and RouteDel.
LEMMA HandlerStep == ASSUME RInv, Handler PROVE RInv'
<1> USE DEF RInv
<1>1. CASE ListExisting
  <2>1. handler \in [pc : {"list"}, r : Route]
    BY <1>1 DEF ListExisting, TypeOK, HandlerStates, AtRest
  <2>2. /\ handler' \in HandlerStates
        /\ handler'.pc \in {"replace", "add"} /\ handler'.r = handler.r
        /\ handler'.pc = "replace" => handler'.old # handler.r /\ handler'.old.dst = handler.r.dst
    BY Zenon, <1>1, <2>1 DEF ListExisting, TypeOK, HandlerStates, Route
  <2>3. UNCHANGED <<lease, arr, len, kernel, check>> BY Zenon, <1>1 DEF ListExisting, HandlerFrame
  <2>4. HandlerCurrent' BY Zenon, <2>1, <2>2, <2>3 DEF HandlerCurrent
  <2> HIDE DEF RInv
  <2> QED BY Zenon, <2>2, <2>3, <2>4, ListUnchanged, ListUnchangedParts
<1>2. CASE DelExisting
  <2>1. handler \in [pc : {"replace"}, r : Route, old : Route]
    BY <1>2 DEF DelExisting, TypeOK, HandlerStates, AtRest
  <2>2. /\ handler' \in {AtRest, [handler EXCEPT !.pc = "unlist"]}
        /\ kernel' \in [Dsts -> Gws \cup {NoGw}]
        /\ UNCHANGED <<lease, arr, len, check>>
    BY Zenon, <1>2, <2>1 DEF DelExisting, HandlerFrame, TypeOK, Route
  <2>3. handler' \in HandlerStates BY Zenon, <2>1, <2>2 DEF HandlerStates
  <2>4. HandlerCurrent' BY <2>1, <2>2 DEF HandlerCurrent, AtRest
  <2> HIDE DEF RInv
  <2> QED BY Zenon, <2>2, <2>3, <2>4, ListUnchanged, ListUnchangedParts
<1>3. CASE Unlist
  <2>1. handler \in [pc : {"unlist"}, r : Route, old : Route]
    BY <1>3 DEF Unlist, TypeOK, HandlerStates, AtRest
  <2>2. /\ removeFromRouteList(handler.old) /\ handler' = [pc |-> "add", r |-> handler.r]
        /\ UNCHANGED <<lease, kernel, check>>
    BY Zenon, <1>3 DEF Unlist, HandlerFrame
  <2>3. handler' \in HandlerStates /\ HandlerCurrent'
    BY Zenon, <2>1, <2>2 DEF HandlerStates, HandlerCurrent
  <2>4. \A x \in Dsts : [dst |-> x, gw |-> lease[x]] # handler.old
    BY <2>1 DEF HandlerCurrent, Route
  <2> QED BY Zenon, <2>1, <2>2, <2>3, <2>4, ShrinkStep DEF TypeOK
<1>4. CASE AddRoute \/ DelRoute
  <2>1. handler \in [pc : {"add", "del"}, r : Route]
    BY <1>4 DEF AddRoute, DelRoute, TypeOK, HandlerStates, AtRest
  <2>2. handler' = AtRest /\ kernel' \in [Dsts -> Gws \cup {NoGw}]
        /\ UNCHANGED <<lease, arr, len, check>>
    BY Zenon, <1>4, <2>1 DEF AddRoute, DelRoute, HandlerFrame, TypeOK, Route
  <2>3. handler' \in HandlerStates BY Zenon, <2>2 DEF HandlerStates
  <2>4. HandlerCurrent' BY Zenon, <2>2 DEF HandlerCurrent, AtRest
  <2> HIDE DEF RInv
  <2> QED BY Zenon, <2>2, <2>3, <2>4, ListUnchanged, ListUnchangedParts
<1> QED BY Zenon, <1>1, <1>2, <1>3, <1>4 DEF Handler

\* The states of a check that is under way.
Listing == [pc : {"list"}, n : Nat]
Reading == [pc : {"next"}, n : Nat, i : Nat \ {0}, seen : [Dsts -> Gws \cup {NoGw}]]
Adding == [pc : {"add"}, n : Nat, i : Nat \ {0}, seen : [Dsts -> Gws \cup {NoGw}], r : Route]

\* They are states of the check.
LEMMA CheckShapes ==
  /\ \A c \in Listing \cup Reading \cup Adding : c \in CheckStates
  /\ AtRest \in CheckStates
BY Zenon DEF Listing, Reading, Adding, CheckStates

\* Where the check is says which of them it is in.
LEMMA CheckAt ==
  ASSUME RInv
  PROVE  /\ check.pc = "list" => check \in Listing
         /\ check.pc = "next" => check \in Reading
         /\ check.pc = "add" => check \in Adding
         /\ check.pc \in {"list", "next", "add"} => check.n <= Len(arr)
<1>1. check \in {AtRest} \cup Listing \cup Reading \cup Adding /\ (check # AtRest => check.n <= Len(arr))
  BY Zenon DEF RInv, TypeOK, CheckStates, Listing, Reading, Adding
<1>2. AtRest.pc = "idle" BY Zenon DEF AtRest
<1>3. /\ \A c \in Listing : c.pc = "list"
      /\ \A c \in Reading : c.pc = "next"
      /\ \A c \in Adding : c.pc = "add"
  BY Zenon DEF Listing, Reading, Adding
<1>4. check.pc \in {"list", "next", "add"} => check # AtRest BY Zenon, <1>2
<1> QED BY Zenon, <1>1, <1>2, <1>3, <1>4

\* The steps of routeCheck change neither the list nor the handler.
LEMMA CheckStep == ASSUME RInv, Check PROVE RInv'
<1>0. UNCHANGED <<lease, arr, len, handler>>
  BY Zenon DEF Check, CheckStart, CheckList, CheckNext, CheckAdd, CheckFrame
<1>1. /\ kernel \in [Dsts -> Gws \cup {NoGw}] /\ arr \in Seq(Route)
      /\ Len(arr) \in Nat /\ len \in Nat /\ len <= Len(arr)
  BY DEF RInv, TypeOK
<1>2. /\ check' \in {AtRest} \cup Listing \cup Reading \cup Adding
      /\ kernel' \in [Dsts -> Gws \cup {NoGw}]
      /\ check' # AtRest => check'.n <= Len(arr)
  <2>1. CASE CheckStart
    <3>1. check' = [pc |-> "list", n |-> len] /\ kernel' = kernel BY Zenon, <2>1 DEF CheckStart
    <3>2. check' \in Listing /\ check'.n = len BY Zenon, <1>1, <3>1 DEF Listing
    <3> QED BY Zenon, <1>1, <3>1, <3>2
  <2>2. CASE CheckList
    <3>1. check \in Listing /\ check.n <= Len(arr) BY Zenon, <2>2, CheckAt DEF CheckList
    <3>2. check' = [pc |-> "next", n |-> check.n, i |-> 1, seen |-> kernel] /\ kernel' = kernel
      BY Zenon, <2>2 DEF CheckList
    <3>3. check' \in Reading /\ check'.n = check.n BY <1>1, <3>1, <3>2 DEF Listing, Reading
    <3> QED BY Zenon, <1>1, <3>1, <3>2, <3>3
  <2>3. CASE CheckNext
    <3>1. check \in Reading /\ check.n <= Len(arr) /\ kernel' = kernel
      BY Zenon, <2>3, CheckAt DEF CheckNext
    <3>2. CASE check.i > check.n
      <4>1. check' = AtRest BY Zenon, <2>3, <3>2 DEF CheckNext
      <4> QED BY Zenon, <1>1, <3>1, <4>1
    <3>3. CASE ~ (check.i > check.n)
      <4>1. check.i \in 1 .. Len(arr) BY <1>1, <3>1, <3>3 DEF Reading
      <4>2. arr[check.i] \in Route BY <1>1, <4>1
      <4>3. check' \in {[check EXCEPT !.i = @ + 1],
                        [pc |-> "add", n |-> check.n, i |-> check.i, seen |-> check.seen,
                         r |-> arr[check.i]]}
        BY Zenon, <2>3, <3>3 DEF CheckNext
      <4>4. CASE check' = [check EXCEPT !.i = @ + 1]
        <5>1. check' \in Reading /\ check'.n = check.n BY <3>1, <4>4 DEF Reading
        <5> QED BY Zenon, <1>1, <3>1, <5>1
      <4>5. CASE check' = [pc |-> "add", n |-> check.n, i |-> check.i, seen |-> check.seen,
                           r |-> arr[check.i]]
        <5>1. check' \in Adding /\ check'.n = check.n BY Zenon, <3>1, <4>2, <4>5 DEF Reading, Adding
        <5> QED BY Zenon, <1>1, <3>1, <5>1
      <4> QED BY Zenon, <4>3, <4>4, <4>5
    <3> QED BY Zenon, <3>2, <3>3
  <2>4. CASE CheckAdd
    <3>1. check \in Adding /\ check.n <= Len(arr) BY Zenon, <2>4, CheckAt DEF CheckAdd
    <3>2. check' = [pc |-> "next", n |-> check.n, i |-> check.i + 1, seen |-> check.seen]
      BY Zenon, <2>4 DEF CheckAdd
    <3>3. check' \in Reading /\ check'.n = check.n BY <3>1, <3>2 DEF Reading, Adding
    <3>4. check.r.dst \in Dsts /\ check.r.gw \in Gws BY Zenon, <3>1 DEF Adding, Route
    <3>5. kernel' \in {kernel, [kernel EXCEPT ![check.r.dst] = check.r.gw]} BY Zenon, <2>4 DEF CheckAdd
    <3>6. kernel' \in [Dsts -> Gws \cup {NoGw}] BY Zenon, <1>1, <3>4, <3>5
    <3> QED BY Zenon, <3>1, <3>3, <3>6
  <2> QED BY Zenon, <2>1, <2>2, <2>3, <2>4 DEF Check
<1>3. check' \in CheckStates BY Zenon, <1>2, CheckShapes
<1>4. handler' \in HandlerStates BY Zenon, <1>0, ListUnchangedParts
<1>5. HandlerCurrent' BY Zenon, <1>0, ListUnchangedParts DEF HandlerCurrent
<1> QED BY Zenon, <1>0, <1>2, <1>3, <1>4, <1>5, ListUnchanged

\* The inductive invariant is kept by every step.
LEMMA RStep == ASSUME RInv, [RouteNext]_routeVars PROVE RInv'
<1>1. ASSUME NEW d \in Dsts, LoseRoute(d) PROVE RInv'
  <2>1. UNCHANGED <<lease, arr, len, handler, check>> BY Zenon, <1>1 DEF LoseRoute
  <2>2. kernel' \in [Dsts -> Gws \cup {NoGw}] BY Zenon, <1>1, ListUnchangedParts DEF LoseRoute
  <2>3. HandlerCurrent' BY Zenon, <2>1, ListUnchangedParts DEF HandlerCurrent
  <2> QED BY Zenon, <2>1, <2>2, <2>3, ListUnchanged, ListUnchangedParts
<1>2. CASE UNCHANGED routeVars
  <2>1. UNCHANGED <<lease, arr, len, kernel, handler, check>> BY Zenon, <1>2 DEF routeVars
  <2>2. HandlerCurrent' BY Zenon, <2>1, ListUnchangedParts DEF HandlerCurrent
  <2> QED BY Zenon, <2>1, <2>2, ListUnchanged, ListUnchangedParts
<1> QED BY Zenon, <1>1, <1>2, AddedStep, RemovedStep, HandlerStep, CheckStep DEF RouteNext

\* The list and the goroutines' states keep their shape, no route is listed twice, and
\* routeCheck's slice stays within the array, however the two goroutines interleave.
THEOREM ListWellFormed ==
  RouteSpec => []TypeOK
<1>1. RouteInit => RInv BY Zenon, RInit
<1>2. RInv /\ [RouteNext]_routeVars => RInv' BY RStep
<1>3. RInv => TypeOK BY Zenon DEF RInv
<1> QED BY <1>1, <1>2, <1>3, PTL DEF RouteSpec

\* routeCheck always finds the route of every current lease in the list.
THEOREM LeasesStayListed ==
  RouteSpec => []CurrentListed
<1>1. RouteInit => RInv BY RInit
<1>2. RInv /\ [RouteNext]_routeVars => RInv' BY RStep
<1>3. RInv => CurrentListed BY Zenon DEF RInv
<1> QED BY <1>1, <1>2, <1>3, PTL DEF RouteSpec

-----------------------------------------------------------------------------
(* The start of a watch, and what follows for the routes of MeshRoutes.    *)

INSTANCE FiniteSetTheorems

\* The watch begins with every lease: an order of the leases leaves none out.
LEMMA StartFeed ==
  ASSUME FeedInv, NEW order \in Orders, StartRun(order)
  PROVE  feed' \in Seq(EventType) /\ \A n \in leases : Returns(n, feed')
  <1> DEFINE c == Cardinality(leases)
  <1>1. IsFiniteSet(leases) /\ leases \subseteq Nets
    BY Zenon, MeshRoutesAssumption, FS_Subset DEF FeedInv
  <1>2. c \in Nat
    BY Zenon, <1>1, FS_CardinalityType
  <1>3. /\ order \in [1 .. c -> leases]
        /\ \A i, j \in 1 .. c : order[i] = order[j] => i = j
    BY Zenon DEF Orders
  <1>4. IsFiniteSet(1 .. c) /\ Cardinality(1 .. c) = c
    BY <1>2, FS_Interval
  <1> HIDE DEF c
  <1>5. order \in Injection(1 .. c, leases)
    BY Zenon, <1>3 DEF Injection, IsInjective
  <1>6. order \in Surjection(1 .. c, leases)
    BY Zenon, <1>1, <1>4, <1>5, FS_Injection DEF c
  <1>7. \A n \in leases : \E i \in 1 .. c : order[i] = n
    BY Zenon, <1>6 DEF Surjection
  <1>8. feed' = [i \in 1 .. c |-> Ev("added", order[i])]
    BY Zenon, <1>3 DEF StartRun
  <1>9. feed' \in Seq(EventType) /\ Len(feed') = c
    <2>1. \A i \in 1 .. c : Ev("added", order[i]) \in EventType
      BY Zenon, <1>1, <1>3 DEF Ev, EventType
    <2> QED BY SMTT(30), <1>2, <1>8, <2>1
  <1>10. \A i \in 1 .. c : feed'[i] = Ev("added", order[i])
    BY Zenon, <1>8
  <1>11. \A n, m : Ev("added", n) # Ev("removed", m)
    BY Zenon DEF Ev
  <1> QED BY SMTT(30), <1>7, <1>9, <1>10, <1>11 DEF Returns

\* A prune or a removal under way takes the route of a leased subnet away only when the
\* event that brings it back is still in the feed.
THEOREM NoRouteLost == Spec => RoutesKept
  <1>1. Spec => []FeedInv
    <2>1. FeedInv => StartsFull
      BY Zenon, StartFeed DEF StartsFull
    <2> QED BY <2>1, FeedInit, FeedStep, PTL DEF Spec
  <1>2. FeedInv /\ [Next]_vars
        => [\A n \in leases : pc = "run" /\ pc' = "run" /\ n \in route /\ n \notin route'
              => \E i \in DOMAIN feed : feed[i] = Ev("added", n)]_vars
    <2> SUFFICES ASSUME FeedInv, [Next]_vars, NEW n \in leases,
                        pc = "run", pc' = "run", n \in route, n \notin route'
                 PROVE  \E i \in DOMAIN feed : feed[i] = Ev("added", n)
      BY Zenon
    <2>1. Remove
      <3>1. ~ UNCHANGED route
        BY Zenon
      <3>2. ~ (Register \/ Shutdown \/ Cancel \/ Crash)
        <4>1. ASSUME NEW o \in Orders, StartRun(o) PROVE FALSE
          BY Zenon, <4>1 DEF StartRun
        <4> QED BY Zenon, <4>1
              DEF Register, Shutdown, StartTransport, AcquireLease, ensureMeshRoute,
                  Cleanup, Close, Restart, Cancel, Crash
      <3>3. ~ Ensure
        BY Zenon DEF Ensure
      <3> QED BY Zenon, <3>1, <3>2, <3>3
            DEF Next, Process, Work, Others, handleEvents, reconcile, EnsureNext, ListStale,
                RemoveNext, AssertDone, PruneGrace, ResyncChain, FlushNat, LeaseChange, vars, host
    <2>2. job.k = "r1" /\ job.net = n
      BY Zenon, <2>1 DEF Remove
    <2>3. Announced(n, feed) /\ feed \in Seq(EventType)
      BY Zenon, <2>2 DEF FeedInv, RemovalsAnswered
    <2> QED BY <2>3 DEF Announced
  <1> QED BY <1>1, <1>2, PTL DEF Spec, RoutesKept

=============================================================================
