----------------------------- MODULE KubeSubnet -----------------------------
(***************************************************************************)
(* The Kubernetes subnet manager of one host (pkg/subnet/kube): the node   *)
(* informer, its handlers, the bounded event channel with its asynchronous *)
(* senders, AcquireLease, and the backend's view at the other end.         *)
(*                                                                         *)
(* External: the API server (nodes), the other hosts, and client-go's      *)
(* informer, which keeps a store and calls the handlers one delta at a     *)
(* time. subnet.WatchLeases and the LeaseWatcher (module LeaseWatch) are   *)
(* one step here: one result, one event.                                   *)
(*                                                                         *)
(* A node object is its pod CIDR, the kube-subnet-manager annotation, and  *)
(* per address family what the backend-data and public-ip annotations say. *)
(***************************************************************************)
EXTENDS Naturals, SequencesExt

CONSTANTS
  Nodes, Own,      \* the nodes of the cluster and the one this host is
  Cidr,            \* Cidr[n] is the pod CIDR of node n
  Families,        \* the enabled address families, a subset of {4, 6}
  Data, OwnData,   \* what a host announces of itself, and what this one does
  None,
  Depth,           \* EVENT_QUEUE_DEPTH
  Slots,           \* the weight of asyncSendSemaphore
  MaxChanges,      \* bound on changes of other nodes and watch failures
  ContWhenCacheNotReady,  \* CONT_WHEN_CACHE_NOT_READY
  Faults           \* a subset of {"offlineRejoin", "apiError"}

ASSUME ClusterAssumption ==
  /\ Own \in Nodes /\ OwnData \in [{4, 6} -> Data] /\ None \notin Data
  /\ Families \subseteq {4, 6} /\ Families # {}
  /\ \A m, n \in Nodes : Cidr[m] = Cidr[n] => m = n
  /\ Depth \in Nat \ {0} /\ Slots \in Nat /\ MaxChanges \in Nat
  /\ ContWhenCacheNotReady \in BOOLEAN
  /\ Faults \subseteq {"offlineRejoin", "apiError"}

VARIABLES
  nodes,      \* the API server's node objects
  changes,    \* changes of other nodes and watch failures so far
  online,     \* whether the informer's watch is up
  deltas,     \* the informer's queue: a node and its object
  store,      \* the informer's store
  toSync,     \* deltas of the first list not yet handled
  waiting,    \* the event its handler waits for a semaphore slot with
  events,     \* ksm.events
  async,      \* events held by asynchronous senders
  phase,      \* "starting", "acquire", "watching", "failed" or "exited"
  view,       \* the leases the backend acts on, by CIDR
  overtaken   \* history: an event was sent before an older one

vars == <<nodes, changes, online, deltas, store, toSync, waiting, events, async,
          phase, view, overtaken>>

Unset == [f \in {4, 6} |-> None]
Obj(m, d) == [managed |-> m, data |-> d]
CIDRs == {Cidr[n] : n \in Nodes}
\* What a host announces: the families its flannel does not use stay unset.
Only(F, d) == [f \in {4, 6} |-> IF f \in F THEN d[f] ELSE None]
Announced == {Only(Families, d) : d \in [{4, 6} -> Data]}
Partial == UNION {{Only(F, d) : d \in [{4, 6} -> Data]} : F \in SUBSET Families}

-----------------------------------------------------------------------------
\* The API server and the other hosts.

Store(n, o) ==
  /\ nodes' = [nodes EXCEPT ![n] = o]
  /\ deltas' = IF online THEN Append(deltas, [node |-> n, obj |-> o]) ELSE deltas

Change(n, o) ==
  /\ changes < MaxChanges
  /\ changes' = changes + 1
  /\ Store(n, o)
  /\ UNCHANGED <<online, store, toSync, waiting, events, async, phase, view, overtaken>>

Join(n) ==
  /\ nodes[n] = None
  /\ online \/ "offlineRejoin" \in Faults
  /\ Change(n, Obj(FALSE, Unset))

Annotate(n, d) == nodes[n] # None /\ Change(n, Obj(TRUE, d))

Leave(n) == nodes[n] # None /\ Change(n, None)

Disconnect ==
  /\ online /\ changes < MaxChanges
  /\ changes' = changes + 1
  /\ online' = FALSE
  /\ UNCHANGED <<nodes, deltas, store, toSync, waiting, events, async, phase,
                 view, overtaken>>

\* The informer lists again: a delta for every node that exists or is stored.
Lists(S) == {[i \in DOMAIN q |-> [node |-> q[i], obj |-> nodes[q[i]]]] : q \in SetToSeqs(S)}

Known == {deltas[i].node : i \in 1 .. Len(deltas)} \cup {n \in Nodes : store[n] # None}

Relist ==
  /\ ~ online
  /\ online' = TRUE
  /\ \E l \in Lists({n \in Nodes : nodes[n] # None \/ n \in Known}) :
       deltas' = deltas \o l
  /\ UNCHANGED <<nodes, changes, store, toSync, waiting, events, async, phase, view,
                 overtaken>>

-----------------------------------------------------------------------------
\* The handlers.

\* A lease can be made of a node that announces every enabled family.
nodeToLease(o) == \A f \in Families : o.data[f] # None

Event(t, n, o) == [type |-> t, cidr |-> Cidr[n], data |-> o.data]

handleAddLeaseEvent(t, n, o) ==
  IF o.managed /\ nodeToLease(o) THEN <<Event(t, n, o)>> ELSE <<>>

neverChanged(o, p) == TRUE

\* One family that did not change is enough for "no change".
unchanged(o, p) == \E f \in Families : o.data[f] = p.data[f]

handleUpdateLeaseEvent(n, old, o) ==
  IF o.managed /\ ~ unchanged(old, o) /\ nodeToLease(o)
  THEN <<Event("added", n, o)>> ELSE <<>>

Handle(n, old, o) ==
  CASE old = None /\ o = None -> <<>>
    [] old = None             -> handleAddLeaseEvent("added", n, o)
    [] o = None               -> handleAddLeaseEvent("removed", n, old)
    [] OTHER                  -> handleUpdateLeaseEvent(n, old, o)

\* Send at once if the channel has room, else hand over to an asynchronous
\* sender, else wait for the semaphore.
enqueueLeaseEvent(evt) ==
  \/ /\ Len(events) < Depth
     /\ events' = Append(events, evt)
     /\ overtaken' = (overtaken \/ async # <<>>)
     /\ UNCHANGED <<async, waiting>>
  \/ /\ Len(events) = Depth
     /\ IF Len(async) < Slots
        THEN async' = Append(async, evt) /\ UNCHANGED waiting
        ELSE waiting' = <<evt>> /\ UNCHANGED async
     /\ UNCHANGED <<events, overtaken>>

\* The informer stores the head of its queue and calls the handler.
HandleDelta ==
  /\ deltas # <<>> /\ waiting = <<>>
  /\ LET d == Head(deltas)
         evt == Handle(d.node, store[d.node], d.obj)
     IN  /\ store' = [store EXCEPT ![d.node] = d.obj]
         /\ IF evt = <<>> THEN UNCHANGED <<events, async, waiting, overtaken>>
            ELSE enqueueLeaseEvent(evt[1])
  /\ deltas' = Tail(deltas)
  /\ toSync' = IF toSync > 0 THEN toSync - 1 ELSE 0
  /\ UNCHANGED <<nodes, changes, online, phase, view>>

\* The blocked handler gets a slot and returns.
AcquireSlot ==
  /\ waiting # <<>> /\ Len(async) < Slots
  /\ async' = Append(async, waiting[1])
  /\ waiting' = <<>>
  /\ UNCHANGED <<nodes, changes, online, deltas, store, toSync, events, phase, view,
                 overtaken>>

\* The goroutine of one asynchronous sender gets its event into the channel.
AsyncSend(i) ==
  /\ Len(events) < Depth
  /\ events' = Append(events, async[i])
  /\ async' = RemoveAt(async, i)
  /\ overtaken' = (overtaken \/ i > 1)
  /\ UNCHANGED <<nodes, changes, online, deltas, store, toSync, waiting, phase, view>>

-----------------------------------------------------------------------------
\* The daemon.

\* NewSubnetManager polls HasSynced, which waits for the handler of the delta
\* being processed.
Synced ==
  /\ phase = "starting"
  /\ toSync = 0 /\ waiting = <<>>
  /\ phase' = "acquire"
  /\ UNCHANGED <<nodes, changes, online, deltas, store, toSync, waiting, events, async,
                 view, overtaken>>

\* The handler waits for a sender, the senders wait for room, and the reader of
\* the channel is not started before HasSynced.
Stalled ==
  phase = "starting" /\ Len(events) = Depth /\ Len(async) = Slots /\ waiting # <<>>

exitAnyway == phase' = "exited"

\* main gives up, or is told to go on without a synced cache.
NotReady == phase' = IF ContWhenCacheNotReady THEN "acquire" ELSE "exited"

\* The poll for HasSynced times out.
SyncTimeout ==
  /\ Stalled
  /\ NotReady
  /\ UNCHANGED <<nodes, changes, online, deltas, store, toSync, waiting, events, async,
                 view, overtaken>>

\* The annotations are compared with, and the patch is computed from, the cached
\* node; the patch carries only what differs.
Patch ==
  LET cached == store[Own]
      mine == Only(Families, OwnData)
      patched == [f \in {4, 6} |-> IF cached.data[f] = mine[f] THEN nodes[Own].data[f]
                                   ELSE mine[f]]
  IN  IF cached.managed /\ cached.data = mine
      THEN UNCHANGED <<nodes, deltas>>
      ELSE Store(Own, Obj(TRUE, patched))

\* The node is in the store, or the poll for it times out; the patch succeeds or
\* its poll times out; after it the pod CIDR may be found outside the network.
AcquireLease ==
  /\ phase = "acquire"
  /\ \/ /\ store[Own] # None
        /\ Patch
        /\ phase' = "watching"
     \/ /\ "apiError" \in Faults \/ (store[Own] = None /\ waiting # <<>>)
        /\ UNCHANGED <<nodes, deltas>> \/ (store[Own] # None /\ Patch)
        /\ phase' = IF store[Own] = None THEN "exited" ELSE "failed"
  /\ UNCHANGED <<changes, online, store, toSync, waiting, events, async, view, overtaken>>

\* WatchLeases passes an event on, the LeaseWatcher drops it if it is about the
\* own subnet, and the backend acts on it.
WatchLeases ==
  /\ phase = "watching" /\ events # <<>>
  /\ LET e == Head(events)
     IN  view' = IF e.cidr = Cidr[Own] THEN view
                 ELSE [view EXCEPT ![e.cidr] = IF e.type = "added" THEN e.data ELSE None]
  /\ events' = Tail(events)
  /\ UNCHANGED <<nodes, changes, online, deltas, store, toSync, waiting, async, phase,
                 overtaken>>

-----------------------------------------------------------------------------
Init ==
  /\ nodes \in [Nodes -> {None, Obj(FALSE, Unset)} \cup {Obj(TRUE, d) : d \in Partial}]
  /\ nodes[Own] # None
  /\ changes = 0 /\ online = TRUE
  /\ deltas \in Lists({n \in Nodes : nodes[n] # None})
  /\ store = [n \in Nodes |-> None]
  /\ toSync = Len(deltas)
  /\ waiting = <<>> /\ events = <<>> /\ async = <<>>
  /\ phase = "starting"
  /\ view = [c \in CIDRs |-> None]
  /\ overtaken = FALSE

Next ==
  \/ \E n \in Nodes \ {Own} : Join(n) \/ Leave(n) \/ \E d \in Announced : Annotate(n, d)
  \/ Disconnect \/ Relist
  \/ HandleDelta \/ AcquireSlot
  \/ \E i \in 1 .. Len(async) : AsyncSend(i)
  \/ Synced \/ SyncTimeout \/ AcquireLease \/ WatchLeases

Spec == Init /\ [][Next]_vars

\* The informer, the senders and the daemon's goroutines are scheduled; a watch
\* that is down is set up again by the reflector.
FairSpec ==
  /\ Spec
  /\ WF_vars(Relist) /\ WF_vars(HandleDelta) /\ WF_vars(AcquireSlot)
  /\ WF_vars(\E i \in 1 .. Len(async) : AsyncSend(i))
  /\ WF_vars(Synced) /\ WF_vars(SyncTimeout) /\ WF_vars(AcquireLease) /\ WF_vars(WatchLeases)

-----------------------------------------------------------------------------
LeaseAt(c) ==
  LET n == CHOOSE m \in Nodes : Cidr[m] = c
  IN  IF n # Own /\ nodes[n] # None /\ nodes[n].managed /\ nodeToLease(nodes[n])
      THEN nodes[n].data ELSE None

\* Once the cluster stays as it is, the backend of a running daemon acts on exactly
\* the leases of the other managed nodes with what they announce now: the handlers,
\* the relisting informer and the channel lose nothing, even if startup stalled.
\* The exception is an event that overtook an older one past the asynchronous senders.
PeersConverge ==
  <>[](\/ phase \in {"failed", "exited"}
       \/ overtaken
       \/ \A c \in CIDRs : view[c] = LeaseAt(c))

\* The daemon gets to watching although nobody reads the channel before that and
\* the informer may block on it (CONT_WHEN_CACHE_NOT_READY), unless the API server
\* fails or the informer blocks before the own node is in its store.
Starts ==
  ContWhenCacheNotReady =>
    <>(phase \in {"watching", "failed"} \/ (phase = "exited" /\ store[Own] = None))
=============================================================================
