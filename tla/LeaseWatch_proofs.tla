------------------------- MODULE LeaseWatch_proofs --------------------------
(***************************************************************************)
(* LeaseWatch implements LeaseView, for any keys, attributes and number of *)
(* revisions: the results between the producer and the LeaseWatcher are a  *)
(* chain of revisions, and the LeaseWatcher's diff of two revisions leads  *)
(* the backend from one to the other.                                      *)
(***************************************************************************)
EXTENDS LeaseWatch, TLAPS

(***************************************************************************)
(* Where the pipeline loses nothing: TimeToLive does not fail, and either  *)
(* etcd does not compact what the watch still needs, or no lease changes   *)
(* its attributes, a change that Reset, which compares subnets only, does  *)
(* not see.                                                                *)
(***************************************************************************)
NoLoss ==
  /\ Faults \subseteq {"compact"}
  /\ "compact" \in Faults => \A a, b \in Attrs : a = b

Value == Attrs \cup {None}
Contents == [Keys -> Value]
Revision == [key : Keys, kv : Contents]
Results ==
  [kind : {"event"}, rev : Nat, key : Keys, val : Value]
    \cup [kind : {"snapshot"}, rev : Nat, leases : Contents]

\* Each revision changes the contents at one key.
History ==
  /\ hist \in Seq(Revision)
  /\ rev >= 1
  /\ \A r \in 2 .. rev : \A k \in Keys :
       k # hist[r].key => hist[r].kv[k] = hist[r - 1].kv[k]

\* In the history h, the result m leads from revision a to its own: an event by one
\* revision, a snapshot to any later one. Only a compaction leads to a second snapshot.
Follows(h, a, m) ==
  /\ m.rev \in 1 .. Len(h)
  /\ \/ /\ m.kind = "event" /\ m.rev >= 2 /\ a = m.rev - 1
        /\ m.key = h[m.rev].key /\ m.val = h[m.rev].kv[m.key]
     \/ /\ m.kind = "snapshot" /\ a <= m.rev /\ (a = 0 \/ "compact" \in Faults)
        /\ m.leases = h[m.rev].kv

Chain(h, s, a) ==
  \A i \in 1 .. Len(s) : Follows(h, IF i = 1 THEN a ELSE s[i - 1].rev, s[i])
End(s, a) == IF Len(s) = 0 THEN a ELSE s[Len(s)].rev

\* What is on its way leads from the LeaseWatcher's revision to the watch's.
Pending ==
  /\ sending \in Seq(Results) /\ queue \in Seq(Results)
  /\ Chain(hist, queue, lwRev)
  /\ Chain(hist, sending, End(queue, lwRev))

Producing ==
  /\ since \in Nat /\ compacted \in Nat
  /\ "compact" \notin Faults => compacted = 0
  /\ \/ /\ phase = "start" /\ stream = "closed"
        /\ sending = <<>> /\ queue = <<>> /\ lwRev = 0
     \/ /\ phase = "watch" /\ since \in 2 .. rev + 1
        /\ End(sending, End(queue, lwRev)) = since - 1

\* The LeaseWatcher has the leases of the others at lwRev.
Differ ==
  /\ lwRev \in 0 .. rev
  /\ lw \in Contents
  /\ \A k \in Keys : k # Own => lw[k] = LV!Peers(lwRev)[k]

\* The batch leads from the view to the LeaseWatcher's leases.
BatchInv ==
  /\ viewRev \in 0 .. lwRev
  /\ view = LV!Peers(viewRev)
  /\ \/ out = NoBatch /\ viewRev = lwRev
     \/ /\ out # NoBatch /\ out.rev = lwRev
        /\ \A e \in out.events : e.key \in Keys /\ e.val = LV!Peers(lwRev)[e.key]
        /\ \A k \in Keys : (\A e \in out.events : e.key # k) => view[k] = LV!Peers(lwRev)[k]

LInv == History /\ Pending /\ Producing /\ Differ /\ BatchInv

-----------------------------------------------------------------------------
(* The operators.                                                          *)

\* Taking the first result off a chain leaves a chain from that result's revision,
\* with the same end: what Process does to the queue.
LEMMA ChainTail ==
  ASSUME NEW h, NEW s \in Seq(Results), s # <<>>, NEW a, Chain(h, s, a)
  PROVE  /\ Head(s) \in Results /\ Follows(h, a, Head(s))
         /\ Chain(h, Tail(s), Head(s).rev)
         /\ End(Tail(s), Head(s).rev) = End(s, a)
  <1>1. Len(s) >= 1 /\ Head(s) = s[1] /\ s[1] \in Results /\ Len(Tail(s)) = Len(s) - 1
    OBVIOUS
  <1>2. Follows(h, a, s[1])
    BY <1>1 DEF Chain
  <1>3. \A i \in 1 .. Len(s) - 1 : Tail(s)[i] = s[i + 1]
    OBVIOUS
  <1>4. ASSUME NEW i \in 1 .. Len(Tail(s))
        PROVE  Follows(h, IF i = 1 THEN Head(s).rev ELSE Tail(s)[i - 1].rev, Tail(s)[i])
    <2>1. i + 1 \in 1 .. Len(s) /\ i + 1 # 1 /\ (i + 1) - 1 = i
      BY <1>1
    <2>2. Follows(h, s[i].rev, s[i + 1])
      BY Zenon, <2>1 DEF Chain
    <2>3. Tail(s)[i] = s[i + 1] /\ (i # 1 => Tail(s)[i - 1] = s[i])
      BY <1>1, <1>3
    <2> QED BY Zenon, <1>1, <2>2, <2>3
  <1>5. End(Tail(s), Head(s).rev) = End(s, a)
    BY <1>1, <1>3 DEF End
  <1> QED BY Zenon, <1>1, <1>2, <1>4, <1>5 DEF Chain

\* A write leaves the earlier revisions as they were, and so every chain.
LEMMA ChainAppend ==
  ASSUME NEW S, NEW h \in Seq(S), NEW x \in S, NEW s, NEW a, Chain(h, s, a)
  PROVE  Chain(Append(h, x), s, a)
  <1>1. Len(Append(h, x)) = Len(h) + 1 /\ \A r \in 1 .. Len(h) : Append(h, x)[r] = h[r]
    OBVIOUS
  <1>2. \A b, m : Follows(h, b, m) => Follows(Append(h, x), b, m)
    BY <1>1 DEF Follows
  <1> QED BY Zenon, <1>2 DEF Chain

-----------------------------------------------------------------------------
(* The invariant.                                                          *)

\* At the start nothing is stored, sent or seen.
LEMMA LInvInit == Init => LInv
  <1> SUFFICES ASSUME Init PROVE LInv
    BY Zenon
  <1>1. PICK c \in Contents : hist = <<[key |-> Own, kv |-> c]>>
    BY Zenon DEF Init, Contents, Value
  <1>2. hist \in Seq(Revision) /\ rev = 1
    BY <1>1, KeysAssumption DEF rev, Revision
  <1>3. History
    BY <1>2 DEF History
  <1>4. Pending /\ Producing
    BY <1>2 DEF Init, Pending, Producing, Chain, End
  <1>5. Differ /\ BatchInv
    BY <1>2 DEF Init, Differ, BatchInv, Empty, Contents, Value, LV!Peers
  <1> QED BY Zenon, <1>3, <1>4, <1>5 DEF LInv

\* A write to etcd: the past of the history stays, and what is in the pipeline with it.
LEMMA WriteKeeps ==
  ASSUME LInv, NEW k \in Keys, NEW v \in Value, Write(k, v)
  PROVE  LInv'
  <1> DEFINE x == [key |-> k, kv |-> [registry EXCEPT ![k] = v]]
  <1>1. hist \in Seq(Revision) /\ rev >= 1 /\ rev \in Nat /\ rev = Len(hist)
    BY DEF LInv, History, rev
  <1>2. registry \in Contents
    <2>1. hist[rev] \in Revision
      BY <1>1
    <2> QED BY Zenon, <2>1 DEF registry, Revision
  <1>3. x \in Revision
    BY Zenon, <1>2 DEF Revision, Contents, Value
  <1>4. hist' = Append(hist, x)
    BY Zenon DEF Write
  <1>5. hist' \in Seq(Revision) /\ rev' = rev + 1 /\ hist'[rev + 1] = x
        /\ \A r \in 1 .. rev : hist'[r] = hist[r]
    BY <1>1, <1>3, <1>4 DEF rev
  <1>6. \A j \in Keys : j # k => hist'[rev + 1].kv[j] = hist'[rev].kv[j]
    BY <1>1, <1>2, <1>5 DEF registry, Contents
  <1>7. History'
    <2>1. ASSUME NEW r \in 2 .. rev', NEW j \in Keys, j # hist'[r].key
          PROVE  hist'[r].kv[j] = hist'[r - 1].kv[j]
      <3>1. CASE r = rev + 1
        <4>1. hist'[r] = x /\ r - 1 = rev /\ j # k
          BY <1>1, <1>5, <2>1, <3>1
        <4> QED BY Zenon, <1>6, <3>1, <4>1
      <3>2. CASE r \in 2 .. rev
        <4>1. hist'[r] = hist[r] /\ hist'[r - 1] = hist[r - 1]
          BY <1>1, <1>5, <3>2
        <4>2. j # hist[r].key => hist[r].kv[j] = hist[r - 1].kv[j]
          BY Zenon, <3>2 DEF LInv, History
        <4> QED BY Zenon, <2>1, <4>1, <4>2
      <3> QED BY <1>1, <1>5, <3>1, <3>2
    <2> QED BY <1>1, <1>5, <2>1 DEF History
  <1>8. Pending'
    <2>1. Chain(hist', queue, lwRev)
      BY Zenon, <1>1, <1>3, <1>4, ChainAppend DEF LInv, Pending
    <2>2. Chain(hist', sending, End(queue, lwRev))
      BY Zenon, <1>1, <1>3, <1>4, ChainAppend DEF LInv, Pending
    <2> QED BY Zenon, <2>1, <2>2 DEF LInv, Pending, Write, End
  <1>9. Producing'
    BY <1>1, <1>5 DEF LInv, Producing, Write, End
  <1>10. \A r \in 0 .. rev : LV!Peers(r)' = LV!Peers(r)
    BY <1>5 DEF LV!Peers
  <1>11. Differ'
    BY <1>1, <1>5, <1>10 DEF LInv, Differ, Write
  <1>12. BatchInv'
    BY <1>1, <1>5, <1>10 DEF LInv, BatchInv, Differ, Write, NoBatch
  <1> QED BY Zenon, <1>7, <1>8, <1>9, <1>11, <1>12 DEF LInv

\* A listing may follow what is in the pipeline when nothing is, or after a compaction;
\* WatchLeases and resyncWatch send it when nothing else is being sent.
LEMMA ListingKeeps ==
  ASSUME NoLoss, LInv, sending = <<>>, WatchLeases \/ resyncWatch
  PROVE  LInv'
  <1> DEFINE e == End(queue, lwRev)
             m == [kind |-> "snapshot", rev |-> rev, leases |-> registry]
  <1>1. hist \in Seq(Revision) /\ rev >= 1 /\ rev \in Nat /\ rev = Len(hist)
    BY DEF LInv, History, rev
  <1>2. registry \in Contents
    <2>1. hist[rev] \in Revision
      BY <1>1
    <2> QED BY Zenon, <2>1 DEF registry, Revision
  <1>3. leasesWatchReset({}) = m
    BY Zenon, <1>2 DEF leasesWatchReset, Contents
  <1>4. sending' = <<m>> /\ since' = rev + 1 /\ phase' = "watch"
    BY Zenon, <1>3 DEF WatchLeases, resyncWatch, Skips, getNextIndex, NoLoss, Reconnecting
  <1>5. UNCHANGED <<hist, compacted, queue, lw, lwRev, out, view, viewRev>>
    BY Zenon DEF WatchLeases, resyncWatch
  <1>6. e <= rev /\ (e = 0 \/ "compact" \in Faults)
    <2>1. CASE phase = "start"
      BY <1>1, <2>1 DEF LInv, Producing, End
    <2>2. CASE phase = "watch"
      <3>1. since < compacted
        BY Zenon, <2>2 DEF WatchLeases, resyncWatch
      <3>2. e = since - 1 /\ since \in 2 .. rev + 1
        BY Zenon, <2>2 DEF LInv, Producing, End
      <3> QED BY <1>1, <3>1, <3>2 DEF LInv, Producing
    <2> QED BY Zenon, <2>1, <2>2 DEF LInv, Producing
  <1>7. m \in Results /\ Follows(hist, e, m)
    BY <1>1, <1>2, <1>6 DEF Results, Follows, registry
  <1>8. <<m>> \in Seq(Results) /\ Len(<<m>>) = 1 /\ <<m>>[1] = m
    BY <1>7
  <1>9. Pending'
    BY <1>4, <1>5, <1>7, <1>8 DEF LInv, Pending, Chain, End
  <1>10. Producing'
    BY SMTT(30), <1>1, <1>4, <1>5, <1>8 DEF LInv, Producing, End, rev
  <1> QED BY <1>5, <1>9, <1>10 DEF LInv, History, Differ, BatchInv, rev, NoBatch, LV!Peers

\* The events of the revisions since .. last follow one another.
LEMMA EventsKeep ==
  ASSUME NoLoss, LInv, watchSubnets
  PROVE  LInv'
  <1> DEFINE e == End(queue, lwRev)
  <1>1. hist \in Seq(Revision) /\ rev >= 1 /\ rev \in Nat /\ rev = Len(hist)
    BY DEF LInv, History, rev
  <1>2. since \in 2 .. rev + 1 /\ phase = "watch" /\ e = since - 1
    BY Zenon DEF LInv, Producing, watchSubnets, End
  <1>3. PICK last \in since .. rev :
          /\ sending' = [i \in 1 .. last - since + 1 |->
                           parseSubnetWatchResponse(since + i - 1, {})]
          /\ since' = last + 1
    BY Zenon DEF watchSubnets, Unparsed, NoLoss
  <1>4. UNCHANGED <<hist, compacted, phase, stream, queue, lw, lwRev, out, view, viewRev>>
    BY Zenon DEF watchSubnets
  <1> DEFINE n == last - since + 1
             ev(i) == [kind |-> "event", rev |-> since + i - 1, key |-> hist[since + i - 1].key,
                       val |-> hist[since + i - 1].kv[hist[since + i - 1].key]]
  <1>5. n \in Nat /\ n >= 1 /\ sending' = [i \in 1 .. n |-> ev(i)]
    BY <1>1, <1>2, <1>3 DEF parseSubnetWatchResponse
  <1>6. ASSUME NEW i \in 1 .. n
        PROVE  ev(i) \in Results /\ Follows(hist, since + i - 2, ev(i))
    <2>1. since + i - 1 \in 2 .. rev /\ since + i - 1 \in 1 .. Len(hist)
      BY SMTT(30), <1>1, <1>2, <1>5
    <2>2. hist[since + i - 1] \in Revision
      BY <1>1, <2>1
    <2>3. ev(i) \in Results
      BY <2>1, <2>2 DEF Results, Revision, Contents
    <2> QED BY <1>2, <2>1, <2>3 DEF Follows
  <1>7. sending' \in Seq(Results) /\ Len(sending') = n /\ \A i \in 1 .. n : sending'[i] = ev(i)
    BY <1>5, <1>6
  <1>8. ASSUME NEW i \in 1 .. n
        PROVE  Follows(hist, IF i = 1 THEN e ELSE sending'[i - 1].rev, sending'[i])
    <2>1. (IF i = 1 THEN e ELSE sending'[i - 1].rev) = since + i - 2
      <3>1. CASE i = 1
        BY <1>2, <3>1
      <3>2. CASE i # 1
        <4>1. i - 1 \in 1 .. n
          BY <1>5, <3>2
        <4>2. sending'[i - 1].rev = since + (i - 1) - 1
          <5>1. sending'[i - 1] = ev(i - 1)
            <6> HIDE DEF ev
            <6> QED BY Zenon, <1>7, <4>1
          <5>2. ev(i - 1).rev = since + (i - 1) - 1
            BY Zenon
          <5> HIDE DEF ev
          <5> QED BY Zenon, <5>1, <5>2
        <4> QED BY <1>2, <3>2, <4>2
      <3> QED BY Zenon, <3>1, <3>2
    <2> QED BY Zenon, <1>6, <1>7, <2>1
  <1>9. Pending'
    BY Zenon, <1>4, <1>7, <1>8 DEF LInv, Pending, Chain, End
  <1>10. Producing'
    <2>1. End(sending', e) = last
      BY <1>2, <1>3, <1>5, <1>7 DEF End
    <2> QED BY <1>1, <1>2, <1>3, <1>4, <2>1 DEF LInv, Producing, End, rev
  <1> QED BY <1>4, <1>9, <1>10 DEF LInv, History, Differ, BatchInv, rev, NoBatch, LV!Peers

\* res is right for the result m: the leases of the others at m's revision, and events
\* for every lease that is not as it was at the LeaseWatcher's.
DiffOK(m, res) ==
  /\ res.leases \in Contents
  /\ \A k \in Keys : k # Own => res.leases[k] = LV!Peers(m.rev)[k]
  /\ \A e \in res.events : e.key \in Keys /\ e.val = LV!Peers(m.rev)[e.key]
  /\ \A k \in Keys : (\A e \in res.events : e.key # k)
                       => LV!Peers(lwRev)[k] = LV!Peers(m.rev)[k]

\* What Update makes of the event that follows the LeaseWatcher's revision, and Reset of
\* the snapshot: the leases of the others at the result's revision, and events that say
\* where these differ from the leases at the LeaseWatcher's revision.
LEMMA DiffCorrect ==
  ASSUME NoLoss, LInv, NEW m \in Results, Follows(hist, lwRev, m),
         NEW res, res = IF m.kind = "event" THEN Update(lw, m) ELSE Reset(lw, m.leases)
  PROVE  DiffOK(m, res)
  <1> SUFFICES /\ res.leases \in Contents
               /\ \A k \in Keys : k # Own => res.leases[k] = LV!Peers(m.rev)[k]
               /\ \A e \in res.events : e.key \in Keys /\ e.val = LV!Peers(m.rev)[e.key]
               /\ \A k \in Keys : (\A e \in res.events : e.key # k)
                                    => LV!Peers(lwRev)[k] = LV!Peers(m.rev)[k]
    BY Zenon DEF DiffOK
  <1> DEFINE old == LV!Peers(lwRev)
             new == LV!Peers(m.rev)
  <1>1. hist \in Seq(Revision) /\ rev \in Nat /\ rev = Len(hist) /\ lwRev \in 0 .. rev
    BY DEF LInv, History, Differ, rev
  <1>2. m.rev \in 1 .. rev /\ hist[m.rev] \in Revision
    BY <1>1 DEF Follows
  <1>3. lw \in Contents /\ \A k \in Keys : k # Own => lw[k] = old[k]
    BY Zenon DEF LInv, Differ
  <1>4. \A k \in Keys : new[k] = IF k = Own THEN None ELSE hist[m.rev].kv[k]
    BY <1>2 DEF LV!Peers
  <1>5. old[Own] = None /\ new[Own] = None
    BY Zenon, KeysAssumption DEF LV!Peers
  <1> HIDE DEF old, new
  <1>6. CASE m.kind = "event"
    <2>1. /\ m.rev \in 2 .. rev /\ lwRev = m.rev - 1 /\ m.key \in Keys
          /\ m.key = hist[m.rev].key /\ m.val = hist[m.rev].kv[m.key] /\ m.val \in Value
      BY <1>2, <1>6 DEF Follows, Revision, Contents
    <2>2. \A k \in Keys : old[k] = IF k = Own THEN None ELSE hist[m.rev - 1].kv[k]
      BY <1>1, <2>1 DEF old, LV!Peers
    <2>3. \A k \in Keys : k # m.key => old[k] = new[k]
      <3>1. \A k \in Keys : k # hist[m.rev].key => hist[m.rev].kv[k] = hist[m.rev - 1].kv[k]
        BY Zenon, <2>1 DEF LInv, History
      <3> QED BY Zenon, <1>4, <2>1, <2>2, <3>1
    <2>4. CASE m.key = Own
      <3>1. res.leases = lw /\ res.events = {}
        BY Zenon, <1>6, <2>4 DEF Update
      <3> QED BY Zenon, <1>3, <1>5, <2>3, <2>4, <3>1 DEF old, new
    <2>5. CASE m.key # Own
      <3>1. /\ res.leases = [lw EXCEPT ![m.key] = m.val]
            /\ res.events = {IF m.val = None THEN Removed(m.key) ELSE Added(m.key, m.val)}
        BY Zenon, <1>6, <2>5 DEF Update
      <3>2. res.leases \in Contents
        BY Zenon, <1>3, <2>1, <3>1 DEF Contents
      <3>3. \A k \in Keys : k # Own => res.leases[k] = new[k]
        <4> SUFFICES ASSUME NEW k \in Keys, k # Own PROVE res.leases[k] = new[k]
          BY Zenon
        <4>1. CASE k = m.key
          <5>1. res.leases[k] = m.val
            BY Zenon, <1>3, <3>1, <4>1 DEF Contents
          <5> QED BY Zenon, <1>4, <2>1, <4>1, <5>1
        <4>2. CASE k # m.key
          <5>1. res.leases[k] = lw[k]
            BY Zenon, <1>3, <3>1, <4>2 DEF Contents
          <5> QED BY Zenon, <1>3, <2>3, <4>2, <5>1
        <4> QED BY Zenon, <4>1, <4>2
      <3>4. \A e \in res.events : e.key = m.key /\ e.val = m.val
        BY <3>1 DEF Added, Removed
      <3>5. res.events # {}
        BY Zenon, <3>1
      <3>6. new[m.key] = m.val
        BY Zenon, <1>4, <2>1, <2>5
      <3>7. \A e \in res.events : e.key \in Keys /\ e.val = new[e.key]
        BY Zenon, <2>1, <3>4, <3>6
      <3>8. \A k \in Keys : (\A e \in res.events : e.key # k) => old[k] = new[k]
        <4>1. PICK e \in res.events : e.key = m.key
          BY Zenon, <3>4, <3>5
        <4> QED BY Zenon, <2>3, <4>1
      <3> QED BY Zenon, <3>2, <3>3, <3>7, <3>8 DEF old, new
    <2> QED BY Zenon, <2>4, <2>5
  <1>7. CASE m.kind = "snapshot"
    <2> DEFINE snap == m.leases
               plus == {x \in Keys \ {Own} : snap[x] # None /\ lw[x] = None}
               minus == {x \in Keys : lw[x] # None /\ (x = Own \/ snap[x] = None)}
    <2>1. snap = hist[m.rev].kv /\ snap \in Contents /\ (lwRev = 0 \/ "compact" \in Faults)
      BY Zenon, <1>2, <1>7 DEF Follows, Revision
    <2>2. /\ res.leases = snap
          /\ res.events = {Added(k, snap[k]) : k \in plus} \cup {Removed(k) : k \in minus}
      BY Zenon, <1>7 DEF Reset
    <2>3. \A k \in Keys : k # Own => snap[k] = new[k]
      BY Zenon, <1>4, <2>1
    <2>4. ASSUME NEW e \in res.events PROVE e.key \in Keys /\ e.val = new[e.key]
      <3>1. CASE \E k \in plus : e = Added(k, snap[k])
        BY <2>3, <3>1 DEF Added
      <3>2. CASE \E k \in minus : e = Removed(k)
        BY <1>5, <2>3, <3>2 DEF Removed
      <3> QED BY Zenon, <2>2, <3>1, <3>2
    <2>5. ASSUME NEW k \in Keys, \A e \in res.events : e.key # k PROVE old[k] = new[k]
      <3>1. k \notin plus
        <4> SUFFICES ASSUME k \in plus PROVE FALSE
          BY Zenon
        <4>1. Added(k, snap[k]) \in res.events
          BY Zenon, <2>2
        <4> QED BY Zenon, <2>5, <4>1 DEF Added
      <3>2. k \notin minus
        <4> SUFFICES ASSUME k \in minus PROVE FALSE
          BY Zenon
        <4>1. Removed(k) \in res.events
          BY Zenon, <2>2
        <4> QED BY Zenon, <2>5, <4>1 DEF Removed
      <3>3. CASE k = Own
        BY Zenon, <1>5, <3>3
      <3>4. CASE k # Own
        <4>1. lw[k] = old[k] /\ snap[k] = new[k] /\ old[k] \in Value /\ new[k] \in Value
          BY Zenon, <1>3, <2>1, <2>3, <3>4 DEF Contents
        <4>2. (old[k] = None) <=> (new[k] = None)
          BY Zenon, <3>1, <3>2, <3>4, <4>1
        <4>3. lwRev = 0 => old[k] = None
          BY Zenon DEF old, LV!Peers
        <4> QED BY Zenon, <2>1, <4>1, <4>2, <4>3 DEF NoLoss, Value
      <3> QED BY Zenon, <3>3, <3>4
    <2> QED BY Zenon, <2>1, <2>2, <2>3, <2>4, <2>5 DEF old, new
  <1>8. m.kind = "event" \/ m.kind = "snapshot"
    BY Zenon DEF Results
  <1> QED BY Zenon, <1>6, <1>7, <1>8

\* The differ takes one result.
LEMMA ProcessKeeps ==
  ASSUME NoLoss, LInv, Process
  PROVE  LInv' /\ (viewRev' = viewRev \/ LV!Advance)
  <1> DEFINE m == Head(queue)
             res == IF m.kind = "event" THEN Update(lw, m) ELSE Reset(lw, m.leases)
  <1>1. /\ out = NoBatch /\ queue' = Tail(queue) /\ lw' = res.leases /\ lwRev' = m.rev
        /\ UNCHANGED <<hist, compacted, phase, stream, since, sending, view>>
    BY Zenon DEF Process
  <1>2. queue # <<>> /\ queue \in Seq(Results) /\ Chain(hist, queue, lwRev)
    BY Zenon DEF Process, LInv, Pending
  <1>3. /\ m \in Results /\ Follows(hist, lwRev, m) /\ Chain(hist, Tail(queue), m.rev)
        /\ End(Tail(queue), m.rev) = End(queue, lwRev)
    BY Zenon, <1>2, ChainTail
  <1> HIDE DEF res
  <1>4. /\ res.leases \in Contents
        /\ \A k \in Keys : k # Own => res.leases[k] = LV!Peers(m.rev)[k]
        /\ \A e \in res.events : e.key \in Keys /\ e.val = LV!Peers(m.rev)[e.key]
        /\ \A k \in Keys : (\A e \in res.events : e.key # k)
                             => LV!Peers(lwRev)[k] = LV!Peers(m.rev)[k]
    <2>1. res = IF m.kind = "event" THEN Update(lw, m) ELSE Reset(lw, m.leases)
      BY Zenon DEF res
    <2>2. DiffOK(m, res)
      <3> HIDE DEF m
      <3> QED BY Zenon, <1>3, <2>1, DiffCorrect
    <2> QED BY Zenon, <2>2 DEF DiffOK
  <1>5. rev \in Nat /\ rev' = rev /\ m.rev \in 1 .. rev /\ lwRev \in 0 .. m.rev
    <2>1. rev \in Nat /\ lwRev \in 0 .. rev
      BY DEF LInv, History, Differ, rev
    <2>2. m.rev \in 1 .. rev /\ (lwRev = m.rev - 1 \/ lwRev <= m.rev)
      BY Zenon, <1>3 DEF Follows, rev
    <2>3. rev' = rev
      BY Zenon, <1>1 DEF rev
    <2> HIDE DEF m
    <2> QED BY <2>1, <2>2, <2>3
  <1>6. \A r : LV!Peers(r)' = LV!Peers(r)
    BY Zenon, <1>1 DEF LV!Peers
  <1>7. Pending'
    <2>1. Tail(queue) \in Seq(Results)
      BY <1>2
    <2> QED BY Zenon, <1>1, <1>3, <2>1 DEF LInv, Pending
  <1>8. Producing'
    BY Zenon, <1>1, <1>2, <1>3, <1>5 DEF LInv, Producing
  <1>9. lwRev' = m.rev /\ Differ'
    BY <1>1, <1>4, <1>5, <1>6 DEF Differ
  <1>10. view = LV!Peers(lwRev) /\ viewRev = lwRev
    BY Zenon, <1>1 DEF LInv, BatchInv
  <1>11. BatchInv' /\ (viewRev' = viewRev \/ LV!Advance)
    <2>1. CASE res.events = {}
      <3>1. out' = NoBatch /\ viewRev' = m.rev
        BY Zenon, <2>1 DEF Process, res
      <3>2. view = LV!Peers(m.rev)
        BY Zenon, <1>4, <1>10, <2>1 DEF LV!Peers
      <3>3. viewRev' \in 0 .. lwRev' /\ viewRev' = lwRev'
        BY <1>1, <1>5, <3>1
      <3>4. BatchInv'
        <4>1. (view = LV!Peers(viewRev))'
          BY Zenon, <1>1, <3>1, <3>2 DEF LV!Peers
        <4> QED BY Zenon, <3>1, <3>3, <4>1 DEF BatchInv, NoBatch
      <3>5. viewRev' \in viewRev .. rev
        BY <1>5, <1>10, <3>1
      <3>6. view' = LV!Peers(viewRev') /\ hist' = hist
        BY Zenon, <1>1, <3>1, <3>2
      <3> QED BY Zenon, <3>4, <3>5, <3>6 DEF LV!Advance, rev
    <2>2. CASE res.events # {}
      <3>1. out' = [events |-> res.events, rev |-> m.rev] /\ viewRev' = viewRev
        BY Zenon, <2>2 DEF Process, res
      <3>2. out' # NoBatch /\ out'.events = res.events /\ out'.rev = m.rev
        BY Zenon, <2>2, <3>1 DEF NoBatch
      <3>3. \A k \in Keys : (\A e \in res.events : e.key # k) => view[k] = LV!Peers(m.rev)[k]
        BY Zenon, <1>4, <1>10
      <3> QED BY Zenon, <1>1, <1>4, <1>5, <1>6, <1>10, <3>1, <3>2, <3>3 DEF BatchInv, NoBatch
    <2> QED BY Zenon, <2>1, <2>2
  <1> QED BY Zenon, <1>1, <1>7, <1>8, <1>9, <1>11 DEF LInv, History, rev

\* The backend handles a batch.
LEMMA HandleKeeps ==
  ASSUME LInv, HandleSubnetEvents
  PROVE  LInv' /\ LV!Advance
  <1>1. /\ out.rev = lwRev /\ viewRev \in 0 .. lwRev /\ lwRev \in 0 .. rev /\ rev \in Nat
        /\ \A e \in out.events : e.key \in Keys /\ e.val = LV!Peers(lwRev)[e.key]
        /\ \A k \in Keys : (\A e \in out.events : e.key # k) => view[k] = LV!Peers(lwRev)[k]
    <2>1. out # NoBatch /\ BatchInv /\ Differ /\ History
      BY Zenon DEF HandleSubnetEvents, LInv
    <2>2. lwRev \in 0 .. rev /\ rev \in Nat
      BY <2>1 DEF Differ, History, rev
    <2> QED BY Zenon, <2>1, <2>2 DEF BatchInv
  <1>2. ASSUME NEW k \in Keys PROVE view'[k] = LV!Peers(lwRev)[k]
    <2>1. CASE \E e \in out.events : e.key = k
      <3> DEFINE c == CHOOSE e \in out.events : e.key = k
      <3>1. c \in out.events /\ c.key = k
        BY Zenon, <2>1
      <3>2. view'[k] = c.val
        BY Zenon, <2>1 DEF HandleSubnetEvents
      <3> QED BY Zenon, <1>1, <3>1, <3>2
    <2>2. CASE \A e \in out.events : e.key # k
      BY Zenon, <1>1, <2>2 DEF HandleSubnetEvents
    <2> QED BY Zenon, <2>1, <2>2
  <1>3. view' = LV!Peers(lwRev) /\ viewRev' = lwRev
    BY Zenon, <1>1, <1>2 DEF HandleSubnetEvents, LV!Peers
  <1>4. out' = NoBatch /\ UNCHANGED <<hist, compacted, phase, stream, since, sending, queue, lw, lwRev>>
    BY Zenon DEF HandleSubnetEvents
  <1>5. \A r : LV!Peers(r)' = LV!Peers(r)
    BY Zenon, <1>4 DEF LV!Peers
  <1>6. BatchInv'
    BY <1>1, <1>3, <1>4, <1>5 DEF BatchInv, NoBatch
  <1>7. LV!Advance
    BY <1>1, <1>3, <1>4 DEF LV!Advance, rev
  <1> QED BY Zenon, <1>4, <1>5, <1>6, <1>7 DEF LInv, History, Pending, Producing, Differ, End, rev

-----------------------------------------------------------------------------
(* The theorems.                                                           *)

\* Every step of etcd, the watch goroutines and the backend keeps it.
LEMMA LInvStep == ASSUME NoLoss PROVE LInv /\ [Next]_vars => LInv'
  <1> SUFFICES ASSUME LInv, [Next]_vars PROVE LInv'
    BY Zenon
  <1>0. UNCHANGED <<hist, lw, lwRev, out, view, viewRev>> => (History /\ Differ /\ BatchInv)'
    <2> SUFFICES ASSUME UNCHANGED <<hist, lw, lwRev, out, view, viewRev>>
                 PROVE  (History /\ Differ /\ BatchInv)'
      BY Zenon
    <2>1. \A r : LV!Peers(r)' = LV!Peers(r)
      BY Zenon DEF LV!Peers
    <2>2. History'
      BY Zenon DEF LInv, History, rev
    <2>3. Differ'
      BY Zenon, <2>1 DEF LInv, Differ, rev
    <2>4. BatchInv'
      BY Zenon, <2>1 DEF LInv, BatchInv, NoBatch
    <2> QED BY Zenon, <2>2, <2>3, <2>4
  <1>1. ASSUME NEW k \in Keys, NEW v \in Attrs \cup {None}, Write(k, v) PROVE LInv'
    <2>1. v \in Value
      BY Zenon DEF Value
    <2> QED BY Zenon, <1>1, <2>1, WriteKeeps
  <1>2. ASSUME Compact PROVE LInv'
    <2>1. /\ UNCHANGED <<hist, phase, stream, since, sending, queue, lw, lwRev, out, view, viewRev>>
          /\ "compact" \in Faults /\ compacted' = rev
      BY Zenon, <1>2 DEF Compact
    <2>2. Pending'
      BY Zenon, <2>1 DEF LInv, Pending
    <2>3. rev \in Nat
      BY DEF LInv, History, rev
    <2>4. Producing'
      BY Zenon, <2>1, <2>3 DEF LInv, Producing, rev
    <2> QED BY Zenon, <1>0, <2>1, <2>2, <2>4 DEF LInv
  <1>3. ASSUME Disconnect \/ Connect \/ UNCHANGED vars PROVE LInv'
    <2>1. UNCHANGED <<hist, compacted, phase, since, sending, queue, lw, lwRev, out, view, viewRev>>
      BY Zenon, <1>3 DEF Disconnect, Connect, vars
    <2>2. Pending'
      BY Zenon, <2>1 DEF LInv, Pending
    <2>3. phase' = "start" => stream' = "closed"
      BY Zenon, <1>3 DEF Disconnect, Connect, Reconnecting, vars, LInv, Producing
    <2>4. Producing'
      BY Zenon, <2>1, <2>3 DEF LInv, Producing, rev
    <2> QED BY Zenon, <1>0, <2>1, <2>2, <2>4 DEF LInv
  <1>4. ASSUME WatchLeases PROVE LInv'
    <2>1. sending = <<>>
      BY Zenon, <1>4 DEF WatchLeases, LInv, Producing
    <2> QED BY Zenon, <1>4, <2>1, ListingKeeps
  <1>5. ASSUME resyncWatch PROVE LInv'
    <2>1. sending = <<>>
      BY Zenon, <1>5 DEF resyncWatch, Reconnecting
    <2> QED BY Zenon, <1>5, <2>1, ListingKeeps
  <1>6. ASSUME watchSubnets PROVE LInv'
    BY Zenon, <1>6, EventsKeep
  <1>7. ASSUME Receive PROVE LInv'
    <2>1. UNCHANGED <<hist, compacted, phase, stream, since, lw, lwRev, out, view, viewRev>>
      BY Zenon, <1>7 DEF Receive
    <2>2. queue = <<>> /\ queue' = sending /\ sending' = <<>> /\ sending # <<>>
      BY Zenon, <1>7 DEF Receive
    <2>3. /\ End(queue, lwRev) = lwRev /\ End(sending', End(queue', lwRev)) = End(sending, lwRev)
          /\ Chain(hist, sending', End(queue', lwRev))
      BY <2>2 DEF End, Chain
    <2>4. Pending'
      BY Zenon, <2>1, <2>2, <2>3 DEF LInv, Pending
    <2>5. Producing'
      BY Zenon, <2>1, <2>2, <2>3 DEF LInv, Producing, rev
    <2> QED BY Zenon, <1>0, <2>1, <2>4, <2>5 DEF LInv
  <1>8. ASSUME Process PROVE LInv'
    BY Zenon, <1>8, ProcessKeeps
  <1>9. ASSUME HandleSubnetEvents PROVE LInv'
    BY Zenon, <1>9, HandleKeeps
  <1> QED BY Zenon, <1>1, <1>2, <1>3, <1>4, <1>5, <1>6, <1>7, <1>8, <1>9 DEF Next, Pipeline, Producer

\* What the backend acts on is the registry at some revision, without the own lease, and
\* later revisions later: the pipeline of watchSubnets, resyncWatch, Reset and Update
\* implements LeaseView.
THEOREM BackendSeesPrefix == ASSUME NoLoss PROVE Spec => PrefixView
  <1>1. Spec => []LInv
    BY LInvInit, LInvStep, PTL DEF Spec
  <1>2. Init => LV!Init
    BY KeysAssumption DEF Init, LV!Init, LV!Peers, Empty
  <1>3. LInv /\ [Next]_vars => [LV!Write \/ LV!Advance]_<<hist, view, viewRev>>
    <2> SUFFICES ASSUME LInv, Next
                 PROVE  LV!Write \/ LV!Advance \/ UNCHANGED <<hist, view, viewRev>>
      BY Zenon DEF vars
    <2>1. ASSUME NEW k \in Keys, NEW v \in Attrs \cup {None}, Write(k, v) PROVE LV!Write
      BY Zenon, <2>1 DEF Write, LV!Write, registry, rev
    <2>2. ASSUME Process PROVE LV!Advance \/ UNCHANGED <<hist, view, viewRev>>
      <3>1. UNCHANGED <<hist, view>>
        BY Zenon, <2>2 DEF Process
      <3>2. viewRev' = viewRev \/ LV!Advance
        BY Zenon, <2>2, ProcessKeeps
      <3> QED BY Zenon, <3>1, <3>2
    <2>3. ASSUME HandleSubnetEvents PROVE LV!Advance
      BY Zenon, <2>3, HandleKeeps
    <2>4. ASSUME Compact \/ Disconnect \/ Producer \/ Receive
          PROVE  UNCHANGED <<hist, view, viewRev>>
      BY Zenon, <2>4 DEF Compact, Disconnect, Producer, WatchLeases, Connect, resyncWatch,
                         watchSubnets, Receive
    <2> QED BY Zenon, <2>1, <2>2, <2>3, <2>4 DEF Next, Pipeline
  <1> QED BY <1>1, <1>2, <1>3, PTL DEF Spec, PrefixView, LV!Spec

=============================================================================
