------------------------------- MODULE Daemon -------------------------------
(***************************************************************************)
(* flanneld with the etcd subnet manager, from main to os.Exit: the steps  *)
(* of startup, the goroutines it starts, the unbuffered channels between   *)
(* them, and shutdown by a signal, a failed step or a revoked lease.       *)
(*                                                                         *)
(* Two pipelines of goroutines deliver leases:                             *)
(*   sm.WatchLeases -leaseWatchChan-> subnet.WatchLeases -evts-> bn.Run    *)
(*   sm.WatchLease  -leaseWatchChan-> subnet.WatchLease  -evts-> main      *)
(* (main in CompleteLease). "lister" and "differ" are the first two of the *)
(* one, "watcher" and "relay" of the other. What a message says is left    *)
(* out, except that the own lease was removed. The waiters of the wait     *)
(* group are shutdownHandler, the health server and its stopper, bn.Run    *)
(* and the relay.                                                          *)
(***************************************************************************)
EXTENDS Naturals

CONSTANT MaxChanges    \* bound on the changes of the leases in etcd

ASSUME DaemonAssumption == MaxChanges \in Nat

VARIABLES
  main,       \* where main is
  code,       \* "none", the exit status "ok" or "failed", or the panic it ends with
  cancelled,  \* whether the context is cancelled
  sig,        \* a signal: "none", "pending", "taken"
  alive,      \* of the handler, the health server, its stopper, routeCheck
  backend,    \* whose Run is bn.Run: "routes", "wireguard", "mesh"
  changes,    \* changes of the leases so far
  bnRun,      \* bn.Run: "off", "reading", "waiting", "done"
  lister, differ,   \* the goroutines of the first pipeline
  watcher, relay,   \* the goroutines of the second
  held,       \* the event of the own lease each of these two holds
  gone,       \* the own key was removed
  closed      \* the closed channels: "leases", "evts", "lease", "own"

daemonVars == <<main, code, cancelled, sig, alive, backend, changes, bnRun, lister, differ,
                watcher, relay, held, gone, closed>>

pipeline1 == <<bnRun, lister, differ>>
pipeline2 == <<watcher, relay, held>>

-----------------------------------------------------------------------------
\* main up to CompleteLease.

MainFrame == UNCHANGED <<backend, sig, changes, pipeline1, pipeline2, gone, closed>>

Goto(m) == main' = m /\ UNCHANGED <<code, cancelled, alive>>

\* cancel, wg.Wait, os.Exit(1)
Fail ==
  /\ main' = "wait" /\ code' = "failed" /\ cancelled' = TRUE
  /\ UNCHANGED alive

osExit(c) == main' = "exited" /\ code' = c /\ UNCHANGED <<cancelled, alive>>

\* getConfig retries until it succeeds or is cancelled.
GetConfig ==
  /\ main = "config"
  /\ \/ Goto("iface")
     \/ cancelled /\ main' = "wait" /\ code' = "ok" /\ UNCHANGED <<cancelled, alive>>
  /\ MainFrame

\* The checks and the interface lookup exit at once.
FindInterface ==
  /\ main = "iface"
  /\ Goto("backend") \/ osExit("failed")
  /\ MainFrame

\* GetBackend and RegisterNetwork, then CleanUp, Init and the masquerade rules.
\* The goroutine that removes the device of wireguard at the end counts for main's
\* wait group from its creation on, also if a later step of RegisterNetwork fails.
RegisterNetwork ==
  LET waiter == IF backend = "wireguard" THEN {"device"} ELSE {}
  IN  /\ main = "backend"
      /\ \/ /\ main' = "rules" /\ alive' = alive \cup waiter
            /\ UNCHANGED <<code, cancelled>>
         \/ /\ main' = "wait" /\ code' = "failed" /\ cancelled' = TRUE
            /\ alive' \in {alive, alive \cup waiter}
      /\ MainFrame

SetupRules ==
  /\ main = "rules"
  /\ Goto("file") \/ Fail
  /\ MainFrame

\* A failure to write the file is only logged.
HandleSubnetFile ==
  /\ main = "file"
  /\ Goto("run")
  /\ MainFrame

StartRun ==
  /\ main = "run"
  /\ main' = "lease"
  /\ bnRun' = "reading" /\ lister' = "list" /\ differ' = "receive"
  /\ alive' = alive \cup (IF backend = "routes" THEN {"check"} ELSE {})
  /\ UNCHANGED <<backend, code, cancelled, sig, changes, pipeline2, gone, closed>>

-----------------------------------------------------------------------------
\* CompleteLease and the end of main.

CompleteLease ==
  /\ main = "lease"
  /\ main' = "complete"
  /\ watcher' = "read" /\ relay' = "receive"
  /\ UNCHANGED <<backend, code, cancelled, sig, alive, changes, pipeline1, held, gone,
                 closed>>

RenewLease ==
  /\ \/ main = "complete" /\ main' = "renew"
     \/ main = "renew" /\ main' = "complete"
  /\ UNCHANGED <<code, cancelled, alive>>
  /\ MainFrame

\* errCanceled: nobody monitors the lease any more.
StoppedMonitoring ==
  /\ main = "complete" /\ "own" \in closed
  /\ main' = "wait" /\ code' = "ok"
  /\ UNCHANGED <<cancelled, alive>>
  /\ MainFrame

\* wg.Wait
Waiters == (alive \ {"check"} # {}) \/ bnRun \notin {"off", "done"}
           \/ relay \notin {"off", "done"}

WaitDone ==
  /\ main = "wait" /\ ~ Waiters
  /\ osExit(code)
  /\ MainFrame

-----------------------------------------------------------------------------
\* shutdownHandler, the health server and routeCheck.

\* The process lives.
Running == main # "exited"

Others == Running /\ UNCHANGED <<backend, main, code, changes, pipeline1, pipeline2, gone, closed>>

Signal ==
  /\ sig = "none" /\ sig' = "pending"
  /\ UNCHANGED <<cancelled, alive>> /\ Others

\* Only a signal ends the handler.
signalOnly ==
  /\ "handler" \in alive
  /\ sig = "pending" /\ cancelled' = TRUE /\ sig' = "taken"
  /\ alive' = alive \ {"handler"}
  /\ Others

shutdownHandler ==
  /\ "handler" \in alive
  /\ \/ cancelled /\ UNCHANGED <<cancelled, sig>>
     \/ sig = "pending" /\ cancelled' = TRUE /\ sig' = "taken"
  /\ alive' = alive \ {"handler"}
  /\ Others

\* server.Shutdown makes ListenAndServe return.
StopHealthz ==
  /\ "stopper" \in alive /\ cancelled
  /\ alive' = alive \ {"stopper", "server"}
  /\ UNCHANGED <<cancelled, sig>> /\ Others

\* The address is in use.
HealthzPanics ==
  /\ "server" \in alive /\ ~ cancelled /\ Running
  /\ main' = "exited" /\ code' = "listen"
  /\ UNCHANGED <<backend, cancelled, sig, alive, changes, pipeline1, pipeline2, gone, closed>>

routeCheck ==
  /\ "check" \in alive /\ cancelled
  /\ alive' = alive \ {"check"}
  /\ UNCHANGED <<cancelled, sig>> /\ Others

RemoveDevice ==
  /\ "device" \in alive /\ cancelled
  /\ alive' = alive \ {"device"}
  /\ UNCHANGED <<cancelled, sig>> /\ Others

-----------------------------------------------------------------------------
\* The leases of all hosts.

Leases == Running /\ UNCHANGED <<backend, main, code, cancelled, sig, alive, pipeline2, gone>>

\* sm.WatchLeases lists first. If that fails it returns and leaves its channel open.
List ==
  /\ lister = "list"
  /\ \/ ~ cancelled /\ lister' = "send"
     \/ lister' = "failed"
  /\ UNCHANGED <<changes, bnRun, differ, closed>> /\ Leases

\* watchSubnets: an event of etcd, or the context is done.
SubnetsEvent ==
  /\ lister = "watch"
  /\ \/ /\ changes < MaxChanges /\ changes' = changes + 1
        /\ lister' = "send" /\ UNCHANGED closed
     \/ /\ cancelled
        /\ lister' = "done" /\ closed' = closed \cup {"leases"}
        /\ UNCHANGED changes
  /\ UNCHANGED <<bnRun, differ>> /\ Leases

\* A batch is handed over; the diff may be empty.
HandOver ==
  /\ lister = "send" /\ differ = "receive"
  /\ lister' = "watch" /\ differ' \in {"receive", "send"}
  /\ UNCHANGED <<bnRun, changes, closed>> /\ Leases

\* bn.Run gets a batch.
Batch ==
  /\ bnRun = "reading" /\ differ = "send"
  /\ differ' = "receive"
  /\ UNCHANGED <<bnRun, lister, changes, closed>> /\ Leases

\* When bn.Run leaves its loop: that of the routes, of vxlan, ipsec and udp when the
\* channel is closed; that of wireguard when the context is done, whatever the channel
\* holds (it does not look whether the channel is closed); that of the mesh on either.
Leaves ==
  \/ backend # "wireguard" /\ "evts" \in closed
  \/ backend # "routes" /\ cancelled

\* The mesh returns after its clean-up; the others wait for their goroutines.
LeaveLoop ==
  /\ bnRun = "reading" /\ Leaves
  /\ bnRun' = IF backend = "mesh" THEN "done" ELSE "waiting"
  /\ UNCHANGED <<lister, differ, changes, closed>> /\ Leases

RunReturns ==
  /\ bnRun = "waiting" /\ differ = "done" /\ "check" \notin alive
  /\ bnRun' = "done"
  /\ UNCHANGED <<lister, differ, changes, closed>> /\ Leases

CloseEvts ==
  /\ differ = "receive" /\ "leases" \in closed
  /\ differ' = "done" /\ closed' = closed \cup {"evts"}
  /\ UNCHANGED <<bnRun, lister, changes>> /\ Leases

-----------------------------------------------------------------------------
\* The own lease.

OwnLease == Running /\ UNCHANGED <<backend, cancelled, sig, alive, pipeline1>>

Panic(p) == main' = "exited" /\ code' = p /\ UNCHANGED closed

\* Closing a closed channel panics, and so does sending on one: the relay may be
\* about to send, or blocked in it.
closeChan ==
  CASE "own" \in closed -> Panic("closeTwice")
    [] relay = "send"    -> Panic("sendClosed")
    [] OTHER             -> closed' = closed \cup {"own"} /\ UNCHANGED <<main, code>>

\* closeOnce.Do
closeReceiver == IF "own" \in closed THEN UNCHANGED <<main, code, closed>> ELSE closeChan

\* sm.WatchLease reads the lease first. If that fails its channel stays open.
ReadOwn ==
  /\ watcher = "read"
  /\ \/ ~ cancelled /\ watcher' = "send" /\ held' = [held EXCEPT !.watcher = "added"]
     \/ watcher' = "failing" /\ UNCHANGED held
  /\ UNCHANGED <<main, code, closed, relay, changes, gone>> /\ OwnLease

\* watchSubnet: the key changes, also when it was removed before, or the context is done.
watchSubnet ==
  /\ watcher = "watch"
  /\ \/ /\ changes < MaxChanges /\ changes' = changes + 1
        /\ \E e \in {"added", "removed"} :
             held' = [held EXCEPT !.watcher = e] /\ gone' = (gone \/ e = "removed")
        /\ watcher' = "send" /\ UNCHANGED closed
     \/ /\ cancelled
        /\ watcher' = "closing" /\ closed' = closed \cup {"lease"}
        /\ UNCHANGED <<held, gone, changes>>
  /\ UNCHANGED <<main, code, relay>> /\ OwnLease

\* The goroutine of sm.WatchLease closes the channel of events when that returns.
WatcherCloses ==
  /\ watcher \in {"closing", "failing"}
  /\ closeReceiver
  /\ watcher' = IF watcher = "closing" THEN "done" ELSE "failed"
  /\ UNCHANGED <<relay, held, changes, gone>> /\ OwnLease

PassOn ==
  /\ watcher = "send" /\ relay = "receive"
  /\ watcher' = "watch" /\ relay' = "send"
  /\ held' = [held EXCEPT !.relay = held.watcher]
  /\ UNCHANGED <<main, code, closed, changes, gone>> /\ OwnLease

DeliverNoCancel ==
  /\ relay = "send" /\ main = "complete" /\ "own" \notin closed
  /\ relay' = "receive"
  /\ IF held.relay = "removed" THEN main' = "wait" /\ code' = "ok"
     ELSE UNCHANGED <<main, code>>
  /\ UNCHANGED <<backend, cancelled, sig, alive, pipeline1, watcher, held, changes, gone, closed>>

\* main gets the event; a removed lease ends CompleteLease with errInterrupted, on
\* which main cancels the context.
Deliver ==
  /\ relay = "send" /\ main = "complete" /\ "own" \notin closed
  /\ relay' = "receive"
  /\ IF held.relay = "removed" THEN main' = "wait" /\ code' = "ok" /\ cancelled' = TRUE
     ELSE UNCHANGED <<main, code, cancelled>>
  /\ UNCHANGED <<backend, sig, alive, pipeline1, watcher, held, changes, gone, closed>>

\* subnet.WatchLease ends when its input is closed.
RelayCloses ==
  /\ relay = "receive" /\ "lease" \in closed /\ watcher # "send"
  /\ relay' = "done"
  /\ closeReceiver
  /\ UNCHANGED <<watcher, held, changes, gone>> /\ OwnLease

-----------------------------------------------------------------------------
DaemonInit ==
  /\ main = "config" /\ code = "none" /\ cancelled = FALSE /\ sig = "none"
  /\ alive \in {{"handler"}, {"handler", "server", "stopper"}}
  /\ backend \in {"routes", "wireguard", "mesh"} /\ changes = 0
  /\ bnRun = "off" /\ lister = "off" /\ differ = "off"
  /\ watcher = "off" /\ relay = "off" /\ held = [watcher |-> "added", relay |-> "added"]
  /\ gone = FALSE /\ closed = {}

Startup ==
  FindInterface \/ RegisterNetwork \/ SetupRules \/ HandleSubnetFile \/ StartRun
  \/ CompleteLease

DaemonNext ==
  \/ GetConfig \/ Startup \/ RenewLease \/ StoppedMonitoring \/ WaitDone
  \/ Signal \/ shutdownHandler \/ StopHealthz \/ HealthzPanics \/ routeCheck
  \/ RemoveDevice
  \/ List \/ SubnetsEvent \/ HandOver \/ Batch \/ LeaveLoop \/ RunReturns \/ CloseEvts
  \/ ReadOwn \/ watchSubnet \/ WatcherCloses \/ PassOn \/ Deliver \/ RelayCloses

DaemonSpec == DaemonInit /\ [][DaemonNext]_daemonVars

\* Goroutines that can go on do; nothing makes the configuration appear, a signal
\* come or a lease change. main is often back in CompleteLease's select, and a
\* select that often finds an event or the closed channel takes it in the end.
FairDaemonSpec ==
  /\ DaemonSpec
  /\ WF_daemonVars(cancelled /\ GetConfig) /\ WF_daemonVars(Startup)
  /\ WF_daemonVars(main = "renew" /\ RenewLease) /\ WF_daemonVars(WaitDone)
  /\ SF_daemonVars(StoppedMonitoring) /\ SF_daemonVars(Deliver)
  /\ WF_daemonVars(shutdownHandler) /\ WF_daemonVars(StopHealthz) /\ WF_daemonVars(routeCheck)
  /\ WF_daemonVars(RemoveDevice)
  /\ WF_daemonVars(List) /\ WF_daemonVars(cancelled /\ SubnetsEvent)
  /\ WF_daemonVars(HandOver) /\ WF_daemonVars(Batch \/ LeaveLoop) /\ WF_daemonVars(RunReturns)
  /\ WF_daemonVars(CloseEvts)
  /\ WF_daemonVars(ReadOwn) /\ WF_daemonVars(cancelled /\ watchSubnet)
  /\ WF_daemonVars(WatcherCloses) /\ WF_daemonVars(PassOn) /\ WF_daemonVars(RelayCloses)

-----------------------------------------------------------------------------
\* Run of wireguard waits for subnet.WatchLeases, which waits for Run to take a batch.
Abandoned == backend = "wireguard" /\ bnRun = "waiting" /\ differ = "send"

\* main has left CompleteLease, and two more events of the own lease are on their way:
\* subnet.WatchLease waits for main to take the first, and watchSubnet, which holds the
\* second, for subnet.WatchLease. Neither looks at the context there.
Unheard == main = "wait" /\ relay = "send" /\ watcher = "send"

\* The process ends after the context is cancelled, whatever the goroutines were
\* doing and whichever backend runs, unless one of the two watches failed before it was
\* set up (its channel then stays open and its reader never ends), wireguard left a
\* batch behind, or main left events of its own lease behind.
Exits ==
  cancelled ~> \/ main = "exited" \/ lister = "failed" \/ watcher = "failed"
               \/ Abandoned \/ Unheard

\* A daemon whose lease is removed while it watches it stops, also when the key is put
\* again; with the same exceptions, but that of the own watch.
RevokedStops == gone ~> (main = "exited" \/ lister = "failed" \/ Abandoned \/ Unheard)

\* subnet.WatchLease closes the channel of events from two goroutines, but once, and
\* never under a sender while the daemon is not being stopped.
ClosedSafely == code # "closeTwice" /\ (code = "sendClosed" => cancelled)
=============================================================================
