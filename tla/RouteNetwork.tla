---------------------------- MODULE RouteNetwork ----------------------------
(***************************************************************************)
(* The routes of the host-gw and ipip backends (pkg/backend/route_network) *)
(* for one address family: handleSubnetEvents keeps a list of routes and   *)
(* the kernel's table, and routeCheck, a goroutine of its own, re-adds     *)
(* listed routes it does not find in the kernel. The two share the list    *)
(* without a lock: the check iterates over a slice it captured, whose      *)
(* backing array the handler shifts under it.                              *)
(*                                                                         *)
(* External: the kernel's table, at most one route per destination         *)
(* (RouteAdd is exclusive), and what else changes it. A lease is the       *)
(* gateway it is reached by, or Foreign if its backend type is another.    *)
(***************************************************************************)
EXTENDS Naturals, Sequences

CONSTANTS
  Dsts, Gws, Foreign, NoGw,
  MaxEvents,   \* bound on the lease events
  MaxFaults    \* bound on routes lost and calls failed in the kernel

ASSUME RouteAssumption ==
  /\ {Foreign, NoGw} \cap Gws = {} /\ Foreign # NoGw
  /\ MaxEvents \in Nat /\ MaxFaults \in Nat

VARIABLES
  lease,    \* the last event's lease of each destination, NoGw if removed
  arr,      \* the backing array of n.routes
  len,      \* len(n.routes)
  kernel,   \* the kernel's gateway for each destination
  handler,  \* where handleSubnetEvents is
  check,    \* where routeCheck is
  events, faults,
  had       \* history: the gateways each destination ever had

routeVars == <<lease, arr, len, kernel, handler, check, events, faults, had>>

Route == [dst : Dsts, gw : Gws]
AtRest == [pc |-> "idle"]
Entries == {arr[i] : i \in 1 .. len}

-----------------------------------------------------------------------------
\* The list.

appendAlways(r) ==
  /\ len' = len + 1
  /\ arr' = IF len < Len(arr) THEN [arr EXCEPT ![len + 1] = r] ELSE Append(arr, r)

addToRouteList(r) ==
  IF r \in Entries THEN UNCHANGED <<arr, len>>
  ELSE /\ len' = len + 1
       /\ arr' = IF len < Len(arr) THEN [arr EXCEPT ![len + 1] = r] ELSE Append(arr, r)

sameDst(x, y) == x.dst = y.dst

routeEqual(x, y) == x = y

\* append(routes[:i], routes[i+1:]...) moves the rest up within the array. A route
\* is listed once, so the first equal one is the only one.
removeFromRouteList(r) ==
  IF \E i \in 1 .. len : routeEqual(arr[i], r)
  THEN LET i == CHOOSE j \in 1 .. len : routeEqual(arr[j], r)
       IN  /\ arr' = [j \in DOMAIN arr |-> IF i <= j /\ j < len THEN arr[j + 1] ELSE arr[j]]
           /\ len' = len - 1
  ELSE UNCHANGED <<arr, len>>

-----------------------------------------------------------------------------
\* handleSubnetEvents and routeAdd.

HandlerFrame == UNCHANGED <<lease, check, events, had>>

EventAdded(d, g) ==
  /\ handler = AtRest /\ events < MaxEvents
  /\ events' = events + 1
  /\ lease' = [lease EXCEPT ![d] = g]
  /\ IF g = Foreign THEN UNCHANGED <<arr, len, handler, had>>
     ELSE /\ addToRouteList([dst |-> d, gw |-> g])
          /\ handler' = [pc |-> "list", r |-> [dst |-> d, gw |-> g]]
          /\ had' = [had EXCEPT ![d] = @ \cup {g}]
  /\ UNCHANGED <<kernel, check, faults>>

\* The route to the destination is looked up, a different one is to be replaced.
ListExisting ==
  /\ handler.pc = "list"
  /\ LET k == kernel[handler.r.dst]
     IN  handler' = IF k \notin {NoGw, handler.r.gw}
                    THEN [pc |-> "replace", r |-> handler.r, old |-> [handler.r EXCEPT !.gw = k]]
                    ELSE [pc |-> "add", r |-> handler.r]
  /\ UNCHANGED <<arr, len, kernel, faults>> /\ HandlerFrame

\* RouteDel of the different route; if it fails the new one is not added.
DelExisting ==
  /\ handler.pc = "replace"
  /\ IF kernel[handler.old.dst] = handler.old.gw
     THEN /\ kernel' = [kernel EXCEPT ![handler.old.dst] = NoGw]
          /\ handler' = [handler EXCEPT !.pc = "unlist"]
     ELSE handler' = AtRest /\ UNCHANGED kernel
  /\ UNCHANGED <<arr, len, faults>> /\ HandlerFrame

Unlist ==
  /\ handler.pc = "unlist"
  /\ removeFromRouteList(handler.old)
  /\ handler' = [pc |-> "add", r |-> handler.r]
  /\ UNCHANGED <<kernel, faults>> /\ HandlerFrame

\* RouteAdd, unless the route is there; it fails if another one is.
AddRoute ==
  /\ handler.pc = "add"
  /\ \/ /\ kernel' = IF kernel[handler.r.dst] = NoGw
                     THEN [kernel EXCEPT ![handler.r.dst] = handler.r.gw] ELSE kernel
        /\ UNCHANGED faults
     \/ faults < MaxFaults /\ faults' = faults + 1 /\ UNCHANGED kernel
  /\ handler' = AtRest
  /\ UNCHANGED <<arr, len>> /\ HandlerFrame

EventRemoved(d) ==
  /\ handler = AtRest /\ events < MaxEvents
  /\ lease[d] # NoGw
  /\ events' = events + 1
  /\ lease' = [lease EXCEPT ![d] = NoGw]
  /\ IF lease[d] = Foreign THEN UNCHANGED <<arr, len, handler>>
     ELSE /\ removeFromRouteList([dst |-> d, gw |-> lease[d]])
          /\ handler' = [pc |-> "del", r |-> [dst |-> d, gw |-> lease[d]]]
  /\ UNCHANGED <<kernel, check, faults, had>>

DelRoute ==
  /\ handler.pc = "del"
  /\ kernel' = IF kernel[handler.r.dst] = handler.r.gw
               THEN [kernel EXCEPT ![handler.r.dst] = NoGw] ELSE kernel
  /\ handler' = AtRest
  /\ UNCHANGED <<arr, len, faults>> /\ HandlerFrame

-----------------------------------------------------------------------------
\* routeCheck.

CheckFrame == UNCHANGED <<lease, arr, len, handler, events, faults, had>>

\* The slice n.routes is passed on, then the kernel is listed.
CheckStart ==
  /\ check = AtRest
  /\ check' = [pc |-> "list", n |-> len]
  /\ UNCHANGED kernel /\ CheckFrame

CheckList ==
  /\ check.pc = "list"
  /\ check' = [pc |-> "next", n |-> check.n, i |-> 1, seen |-> kernel]
  /\ UNCHANGED kernel /\ CheckFrame

StopAtFirst ==
  /\ check.pc = "next"
  /\ check' =
       IF check.i > check.n \/ check.seen[arr[check.i].dst] = arr[check.i].gw THEN AtRest
       ELSE [pc |-> "add", n |-> check.n, i |-> check.i, seen |-> check.seen, r |-> arr[check.i]]
  /\ UNCHANGED kernel /\ CheckFrame

\* The next element of the slice is read from the array as it is now.
CheckNext ==
  /\ check.pc = "next"
  /\ check' =
       IF check.i > check.n THEN AtRest
       ELSE LET r == arr[check.i]
            IN  IF check.seen[r.dst] = r.gw THEN [check EXCEPT !.i = @ + 1]
                ELSE [pc |-> "add", n |-> check.n, i |-> check.i, seen |-> check.seen, r |-> r]
  /\ UNCHANGED kernel /\ CheckFrame

\* RouteAdd is exclusive.
CheckAdd ==
  /\ check.pc = "add"
  /\ kernel' = IF kernel[check.r.dst] = NoGw
               THEN [kernel EXCEPT ![check.r.dst] = check.r.gw] ELSE kernel
  /\ check' = [pc |-> "next", n |-> check.n, i |-> check.i + 1, seen |-> check.seen]
  /\ CheckFrame

-----------------------------------------------------------------------------
\* A link going down, or an administrator, takes a route away.
LoseRoute(d) ==
  /\ kernel[d] # NoGw /\ faults < MaxFaults
  /\ faults' = faults + 1
  /\ kernel' = [kernel EXCEPT ![d] = NoGw]
  /\ UNCHANGED <<lease, arr, len, handler, check, events, had>>

\* The kernel may hold routes of an earlier run.
RouteInit ==
  /\ lease = [d \in Dsts |-> NoGw]
  /\ arr = <<>> /\ len = 0
  /\ kernel \in [Dsts -> Gws \cup {NoGw}]
  /\ handler = AtRest /\ check = AtRest
  /\ events = 0 /\ faults = 0
  /\ had = [d \in Dsts |-> {kernel[d]} \cap Gws]

Handler == ListExisting \/ DelExisting \/ Unlist \/ AddRoute \/ DelRoute
Check == CheckStart \/ CheckList \/ CheckNext \/ CheckAdd

RouteNext ==
  \/ \E d \in Dsts : EventRemoved(d) \/ LoseRoute(d)
                     \/ \E g \in Gws \cup {Foreign} : EventAdded(d, g)
  \/ Handler \/ Check

RouteSpec == RouteInit /\ [][RouteNext]_routeVars

\* The handler goes on, and the check runs again and again.
FairRouteSpec == RouteSpec /\ WF_routeVars(Handler) /\ WF_routeVars(Check)

-----------------------------------------------------------------------------
HandlerStates ==
  {AtRest} \cup [pc : {"list", "add", "del"}, r : Route]
         \cup [pc : {"replace", "unlist"}, r : Route, old : Route]

CheckStates ==
  LET Pos == Nat \ {0}
      Table == [Dsts -> Gws \cup {NoGw}]
  IN  {AtRest} \cup [pc : {"list"}, n : Nat]
             \cup [pc : {"next"}, n : Nat, i : Pos, seen : Table]
             \cup [pc : {"add"}, n : Nat, i : Pos, seen : Table, r : Route]

\* Types; the list holds no route twice (addToRouteList), and the slice the check
\* iterates over stays within the array.
TypeOK ==
  /\ lease \in [Dsts -> Gws \cup {Foreign, NoGw}]
  /\ arr \in Seq(Route)
  /\ len \in 0 .. Len(arr)
  /\ \A i, j \in 1 .. len : arr[i] = arr[j] => i = j
  /\ kernel \in [Dsts -> Gws \cup {NoGw}]
  /\ handler \in HandlerStates
  /\ check \in CheckStates
  /\ check # AtRest => check.n <= Len(arr)

\* The route of every current lease is in the list that routeCheck goes by, whatever
\* was replaced, lost or failed in between.
CurrentListed == \A d \in Dsts : lease[d] \in Gws => [dst |-> d, gw |-> lease[d]] \in Entries

\* The route of a lease that always had the same gateway is in the kernel for good
\* once events and losses stop: routeCheck recovers what was lost, could not be added
\* or was missed because the list moved under it.
Recovers ==
  <>[](\A d \in Dsts : had[d] = {lease[d]} => kernel[d] = lease[d])

-----------------------------------------------------------------------------
\* What makes CurrentListed inductive: the handler works for the current lease, and
\* what it takes off the list is another route to the same destination.
HandlerCurrent ==
  /\ handler.pc \in {"list", "replace", "unlist", "add"} =>
       lease[handler.r.dst] = handler.r.gw
  /\ handler.pc \in {"replace", "unlist"} => handler.old # handler.r /\ handler.old.dst = handler.r.dst
=============================================================================
