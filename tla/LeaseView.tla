------------------------------ MODULE LeaseView ------------------------------
(***************************************************************************)
(* What a backend is promised of the leases of the other hosts: it sees    *)
(* the registry as it was at some revision, and later revisions later.     *)
(* The registry is its history, one entry per revision: the key a write    *)
(* was made to and the contents after it.                                  *)
(***************************************************************************)
EXTENDS Naturals, Sequences

CONSTANTS Keys,   \* the subnets that may be leased
          Own,    \* the subnet of this host
          Attrs,  \* lease attributes (public IP, backend data)
          None    \* no lease

VARIABLES hist,     \* the revisions of the registry
          view,     \* the leases the backend acts on
          applied   \* the revision the view shows, 0 before the first list

\* The leases of the other hosts at revision r.
Peers(r) == [k \in Keys |-> IF r = 0 \/ k = Own THEN None ELSE hist[r].kv[k]]

Init ==
  /\ hist \in {<<[key |-> k, kv |-> c]>> : k \in Keys, c \in [Keys -> Attrs \cup {None}]}
  /\ applied = 0
  /\ view = Peers(0)

Write ==
  /\ \E k \in Keys, v \in Attrs \cup {None} :
       hist' = Append(hist, [key |-> k, kv |-> [hist[Len(hist)].kv EXCEPT ![k] = v]])
  /\ UNCHANGED <<view, applied>>

Advance ==
  /\ applied' \in applied .. Len(hist)
  /\ view' = Peers(applied')
  /\ UNCHANGED hist

Spec == Init /\ [][Write \/ Advance]_<<hist, view, applied>>
=============================================================================
