----------------------------- MODULE LeaseWatch -----------------------------
(***************************************************************************)
(* The watch of all leases of the etcd subnet manager, from the registry   *)
(* to the backend. Three goroutines work in a pipeline of unbuffered       *)
(* channels: LocalManager.WatchLeases with etcdSubnetRegistry.watchSubnets *)
(* (the producer), subnet.WatchLeases with its LeaseWatcher (the differ),  *)
(* and a backend's event loop. etcd is external: it grows a history of     *)
(* revisions, compacts it, and drops watch streams.                        *)
(*                                                                         *)
(* All keys are of one address family combination, so sameSubnet is        *)
(* equality of keys. The field rev of a result and of a batch, and the     *)
(* variables lwRev and viewRev, are history: the revision whose contents   *)
(* the result, the LeaseWatcher and the backend have reached.              *)
(***************************************************************************)
EXTENDS Naturals, Sequences, FiniteSets

CONSTANTS Keys, Own, Attrs, None,
          MaxRev,   \* bound on the revisions etcd reaches
          Faults    \* the faults that may happen, a subset of AllFaults

AllFaults == {"compact",   \* etcd compacts its history
              "eventTTL",  \* TimeToLive fails for an event
              "listTTL"}   \* TimeToLive fails for a key of a listing

ASSUME KeysAssumption ==
  Own \in Keys /\ None \notin Attrs /\ MaxRev \in Nat /\ Faults \subseteq AllFaults

VARIABLES
  hist,       \* the revisions of <prefix>/subnets: the key written, the contents
  compacted,  \* etcd's compaction revision
  phase,      \* the producer: "start", "watch"
  stream,     \* the etcd watch: "closed", "open"
  since,      \* the revision the watch resumes from
  sending,    \* results the producer is blocked on, <<>> when it is not
  queue,      \* results the differ still has to process
  lw,         \* LeaseWatcher.Leases, by subnet
  lwRev,
  out,        \* the batch the differ is blocked on
  view,       \* the leases the backend acts on
  viewRev

vars == <<hist, compacted, phase, stream, since, sending, queue, lw, lwRev, out,
          view, viewRev>>

rev == Len(hist)
registry == hist[rev].kv
Empty == [k \in Keys |-> None]
NoBatch == [events |-> {}, rev |-> 0]

-----------------------------------------------------------------------------
\* etcd.

Write(k, v) ==
  /\ rev < MaxRev
  /\ v = None => registry[k] # None
  /\ hist' = Append(hist, [key |-> k, kv |-> [registry EXCEPT ![k] = v]])
  /\ UNCHANGED <<compacted, phase, stream, since, sending, queue, lw, lwRev, out,
                 view, viewRev>>

Compact ==
  /\ "compact" \in Faults
  /\ compacted < rev
  /\ compacted' = rev
  /\ UNCHANGED <<hist, phase, stream, since, sending, queue, lw, lwRev, out, view,
                 viewRev>>

\* The stream breaks: the leader is lost, the connection drops, or etcd cancels
\* a watch it has compacted.
Disconnect ==
  /\ stream = "open"
  /\ sending = <<>>
  /\ stream' = "closed"
  /\ UNCHANGED <<hist, compacted, phase, since, sending, queue, lw, lwRev, out,
                 view, viewRev>>

-----------------------------------------------------------------------------
\* The producer.

\* A result with a snapshot: the listing without the keys whose TTL read failed.
leasesWatchReset(skipped) ==
  [kind |-> "snapshot", rev |-> rev,
   leases |-> [k \in Keys |-> IF k \in skipped THEN None ELSE registry[k]]]

Skips == IF "listTTL" \in Faults THEN SUBSET {k \in Keys : registry[k] # None}
         ELSE {{}}

getNextIndex(r) == r + 1

\* LocalManager.WatchLeases: the first listing.
WatchLeases ==
  /\ phase = "start"
  /\ \E skipped \in Skips : sending' = <<leasesWatchReset(skipped)>>
  /\ since' = getNextIndex(rev)
  /\ phase' = "watch"
  /\ UNCHANGED <<hist, compacted, stream, queue, lw, lwRev, out, view, viewRev>>

Reconnecting == phase = "watch" /\ stream = "closed" /\ sending = <<>>

\* cli.Watch from revision since.
Connect ==
  /\ Reconnecting
  /\ since >= compacted
  /\ stream' = "open"
  /\ UNCHANGED <<hist, compacted, phase, since, sending, queue, lw, lwRev, out,
                 view, viewRev>>

\* The watch is answered with ErrCompacted and the leases are listed again.
RetrySameRevision == Reconnecting /\ since < compacted /\ UNCHANGED vars
resyncWatch ==
  /\ Reconnecting
  /\ since < compacted
  /\ \E skipped \in Skips : sending' = <<leasesWatchReset(skipped)>>
  /\ since' = getNextIndex(rev)
  /\ UNCHANGED <<hist, compacted, phase, stream, queue, lw, lwRev, out, view,
                 viewRev>>

\* The result of the event at revision r. One that cannot be parsed becomes a
\* result with a cursor only, which the differ reads as an empty snapshot.
parseSubnetWatchResponse(r, failed) ==
  IF r \in failed
  THEN [kind |-> "snapshot", rev |-> r, leases |-> Empty]
  ELSE [kind |-> "event", rev |-> r, key |-> hist[r].key,
        val |-> hist[r].kv[hist[r].key]]

Unparsed(last) ==
  IF "eventTTL" \in Faults
  THEN SUBSET {r \in since .. last : hist[r].kv[hist[r].key] # None}
  ELSE {{}}

\* watchSubnets: one response with the events of the revisions since .. last.
watchSubnets ==
  /\ stream = "open"
  /\ sending = <<>>
  /\ \E last \in since .. rev : \E failed \in Unparsed(last) :
       /\ sending' = [i \in 1 .. last - since + 1 |->
                        parseSubnetWatchResponse(since + i - 1, failed)]
       /\ since' = last + 1
  /\ UNCHANGED <<hist, compacted, phase, stream, queue, lw, lwRev, out, view,
                 viewRev>>

-----------------------------------------------------------------------------
\* The differ.

Added(k, v) == [type |-> "added", key |-> k, val |-> v]
Removed(k) == [type |-> "removed", key |-> k, val |-> None]

\* What LeaseWatcher.Update makes of one event, with add and remove.
Update(l, e) ==
  IF e.key = Own THEN [leases |-> l, events |-> {}]
  ELSE [leases |-> [l EXCEPT ![e.key] = e.val],
        events |-> {IF e.val = None THEN Removed(e.key) ELSE Added(e.key, e.val)}]

\* What LeaseWatcher.Reset makes of a snapshot: it diffs by subnet, skips the own
\* lease on the new side only, and keeps the whole snapshot.
ResetAddsOnly(l, snapshot) ==
  [leases |-> snapshot,
   events |-> {Added(k, snapshot[k]) :
                 k \in {x \in Keys \ {Own} : snapshot[x] # None /\ l[x] = None}}]
Reset(l, snapshot) ==
  [leases |-> snapshot,
   events |-> {Added(k, snapshot[k]) :
                 k \in {x \in Keys \ {Own} : snapshot[x] # None /\ l[x] = None}}
              \cup {Removed(k) :
                 k \in {x \in Keys : l[x] # None /\ (x = Own \/ snapshot[x] = None)}}]

\* range leaseWatchChan.
Receive ==
  /\ sending # <<>>
  /\ queue = <<>>
  /\ out = NoBatch
  /\ queue' = sending
  /\ sending' = <<>>
  /\ UNCHANGED <<hist, compacted, phase, stream, since, lw, lwRev, out, view, viewRev>>

\* subnet.WatchLeases: one result. An empty batch is not sent.
Process ==
  /\ queue # <<>>
  /\ out = NoBatch
  /\ LET wr == Head(queue)
         res == IF wr.kind = "event" THEN Update(lw, wr) ELSE Reset(lw, wr.leases)
     IN  /\ lw' = res.leases
         /\ lwRev' = wr.rev
         /\ IF res.events = {}
            THEN out' = NoBatch /\ viewRev' = wr.rev
            ELSE out' = [events |-> res.events, rev |-> wr.rev] /\ UNCHANGED viewRev
  /\ queue' = Tail(queue)
  /\ UNCHANGED <<hist, compacted, phase, stream, since, sending, view>>

\* A backend handles one batch.
HandleSubnetEvents ==
  /\ out # NoBatch
  /\ view' = [k \in Keys |-> IF \E e \in out.events : e.key = k
                             THEN (CHOOSE e \in out.events : e.key = k).val
                             ELSE view[k]]
  /\ viewRev' = out.rev
  /\ out' = NoBatch
  /\ UNCHANGED <<hist, compacted, phase, stream, since, sending, queue, lw, lwRev>>

-----------------------------------------------------------------------------
Init ==
  /\ hist \in {<<[key |-> Own, kv |-> c]>> :
               c \in {x \in [Keys -> Attrs \cup {None}] : x[Own] # None}}
  /\ compacted = 0
  /\ phase = "start"
  /\ stream = "closed"
  /\ since = 0
  /\ sending = <<>> /\ queue = <<>>
  /\ lw = Empty /\ lwRev = 0
  /\ out = NoBatch
  /\ view = Empty /\ viewRev = 0

Producer == WatchLeases \/ Connect \/ resyncWatch \/ watchSubnets
Pipeline == Producer \/ Receive \/ Process \/ HandleSubnetEvents

Next ==
  \/ \E k \in Keys, v \in Attrs \cup {None} : Write(k, v)
  \/ Compact
  \/ Disconnect
  \/ Pipeline

Spec == Init /\ [][Next]_vars

\* The goroutines are scheduled, and a watch stream that stays up delivers: the
\* producer's responses arrive infinitely often if the stream is open infinitely
\* often.
FairSpec ==
  /\ Spec
  /\ WF_vars(WatchLeases) /\ WF_vars(Connect) /\ WF_vars(resyncWatch)
  /\ SF_vars(watchSubnets)
  /\ WF_vars(Receive) /\ WF_vars(Process) /\ WF_vars(HandleSubnetEvents)

-----------------------------------------------------------------------------
\* The backend's view implements LeaseView: at every moment it is the registry,
\* without the own lease, at some revision, and the revision never goes back.
\* watchSubnets, resyncWatch, Reset, Update and the channels between them give the
\* backend a prefix of the history.
LV == INSTANCE LeaseView WITH applied <- viewRev
PrefixView == LV!Spec

\* Once the writes stop, the backend's view becomes and stays the leases of the
\* other hosts, whatever streams broke and whatever was compacted on the way.
Converges == <>[](\A k \in Keys \ {Own} : view[k] = registry[k])
=============================================================================
