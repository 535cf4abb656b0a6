------------------------- MODULE MeshTunnel_proofs --------------------------
(***************************************************************************)
(* The buffers and the end of the tunnel, for any pool and any queue that  *)
(* is at least two buffers shorter, and any number of sessions; then the   *)
(* goroutines of Daemon that the events of the own lease pass through.     *)
(***************************************************************************)
EXTENDS MeshTunnel, Daemon, TLAPS

\* Pumps exist in a session only, a connection only while one is being made or used; the
\* supervisor ends with the device closed, and Close after it.
SessionInv ==
  /\ sup \notin {"up", "drain"} => writer.pc = "done" /\ inbound = "done"
  /\ sup \notin {"hello", "up", "drain"} => conn = "none"
  /\ sup = "done" => tun = "closed"
  /\ caller = "closed" => sup = "done"

\* Who may hold a buffer, and the bound of the queue.
PoolInv ==
  /\ free \subseteq Buffers /\ queue \in Seq(Buffers) /\ Len(queue) <= Depth
  /\ \/ reader.buf = None /\ reader.pc \in {"get", "done"}
     \/ reader.buf \in Buffers /\ reader.pc \in {"read", "send"}
  /\ \/ writer.buf = None /\ writer.pc \in {"select", "done"}
     \/ writer.buf \in Buffers /\ writer.pc = "write"

TunnelInv == SessionInv /\ PoolInv /\ OneOwner

\* At the start no session is open and every buffer is free.
LEMMA TunnelInit == Init => TunnelInv
  <1> SUFFICES ASSUME Init PROVE TunnelInv
    BY Zenon
  <1>1. SessionInv
    BY Zenon DEF Init, SessionInv, Free, Holding
  <1>2. queue = <<>> /\ free = Buffers /\ reader.buf = None /\ reader.pc = "get"
        /\ writer.buf = None /\ writer.pc = "done"
    BY Zenon DEF Init, Free, Holding
  <1>3. PoolInv
    BY <1>2, MeshTunnelAssumption DEF PoolInv
  <1>4. OneOwner
    BY <1>2, MeshTunnelAssumption DEF OneOwner, Queued
  <1> QED BY Zenon, <1>1, <1>3, <1>4 DEF TunnelInv

\* The steps of the supervisor, its pumps and Close, one by one.
LEMMA SessionStep == SessionInv /\ [Next]_vars => SessionInv'
  <1> SUFFICES ASSUME SessionInv, [Next]_vars PROVE SessionInv'
    BY Zenon
  <1> USE DEF SessionInv
  <1>1. CASE Ready \/ Stopping \/ SessionLost \/ DeviceGone
    BY Zenon, <1>1 DEF Ready, Stopping, CallClose, Cancel, SessionLost, DeviceGone, session
  <1>2. CASE Closing
    BY Zenon, <1>2 DEF Closing, Close, CloseDone, session
  <1>3. CASE Reader
    BY Zenon, <1>3 DEF Reader, get, Read, Send, FrameReader, session
  <1>4. CASE run \/ dialHTTP3
    BY Zenon, <1>4 DEF run, dialHTTP3, FrameSup, session
  <1>5. CASE Connected
    BY Zenon, <1>5 DEF Connected, FrameSup
  <1>6. CASE SessionError \/ PumpsWait
    BY Zenon, <1>6 DEF SessionError, PumpsWait, FrameSup
  <1>7. CASE Lost \/ Backoff \/ Exit
    BY Zenon, <1>7 DEF Lost, Backoff, Exit, FrameSup, session
  <1>8. CASE Writer
    BY Zenon, <1>8 DEF Writer, Select, WritePacket, FramePump, Free, Holding
  <1>9. CASE ReadPacket
    BY Zenon, <1>9 DEF ReadPacket, FramePump
  <1>10. CASE UNCHANGED vars
    BY Zenon, <1>10 DEF vars, session
  <1> QED BY Zenon, <1>1, <1>2, <1>3, <1>4, <1>5, <1>6, <1>7, <1>8, <1>9, <1>10 DEF Next, Supervisor

\* The states of the pool in which a buffer has one owner.
Owned(b) ==
  \/ b \in free /\ ~Queued(b) /\ reader.buf # b /\ writer.buf # b
  \/ b \notin free /\ Queued(b) /\ reader.buf # b /\ writer.buf # b
  \/ b \notin free /\ ~Queued(b) /\ reader.buf = b /\ writer.buf # b
  \/ b \notin free /\ ~Queued(b) /\ reader.buf # b /\ writer.buf = b

\* The TUN reader takes a buffer, returns it, or passes it on.
LEMMA GetStep == PoolInv /\ OneOwner /\ get => PoolInv' /\ OneOwner'
  <1> SUFFICES ASSUME PoolInv, OneOwner, get PROVE PoolInv' /\ OneOwner'
    BY Zenon
  <1>1. queue' = queue /\ writer' = writer /\ reader.buf = None
    BY Zenon, MeshTunnelAssumption DEF get, PoolInv, FrameReader
  <1>2. CASE \E b \in free : reader' = Holding("read", b) /\ free' = free \ {b}
    <2>1. PICK b \in free : reader' = Holding("read", b) /\ free' = free \ {b}
      BY Zenon, <1>2
    <2>2. reader'.buf = b /\ reader'.pc = "read" /\ b \in Buffers
      BY Zenon, <2>1 DEF Holding, PoolInv
    <2>3. PoolInv'
      BY Zenon, <1>1, <2>1, <2>2 DEF PoolInv
    <2>4. OneOwner'
      BY <1>1, <2>1, <2>2, MeshTunnelAssumption DEF OneOwner, Queued, PoolInv
    <2> QED BY Zenon, <2>3, <2>4
  <1>3. CASE reader' = Free("done") /\ free' = free
    <2>1. reader'.buf = None /\ reader'.pc = "done"
      BY Zenon, <1>3 DEF Free, Holding
    <2> QED BY <1>1, <1>3, <2>1 DEF OneOwner, Queued, PoolInv
  <1> QED BY Zenon, <1>2, <1>3 DEF get

\* Read keeps its buffer, or gives it back when the device is gone.
LEMMA ReadStep == PoolInv /\ OneOwner /\ Read => PoolInv' /\ OneOwner'
  <1> SUFFICES ASSUME PoolInv, OneOwner, Read PROVE PoolInv' /\ OneOwner'
    OBVIOUS
  <1>1. queue' = queue /\ writer' = writer /\ reader.buf \in Buffers
    BY Zenon DEF Read, PoolInv, FrameReader, pool
  <1>2. CASE reader' = [reader EXCEPT !.pc = "send"] /\ free' = free
    <2>1. reader'.buf = reader.buf /\ reader'.pc = "send"
      BY <1>2 DEF PoolInv
    <2> QED BY <1>1, <1>2, <2>1 DEF OneOwner, Queued, PoolInv
  <1>3. CASE reader' = Free("done") /\ free' = free \cup {reader.buf}
    <2>1. reader'.buf = None /\ reader'.pc = "done"
      BY Zenon, <1>3 DEF Free, Holding
    <2> QED BY <1>1, <1>3, <2>1, MeshTunnelAssumption DEF OneOwner, Queued, PoolInv
  <1> QED BY Zenon, <1>2, <1>3 DEF Read, pool

\* Send queues the buffer, or gives it back when the transport ends.
LEMMA SendStep == PoolInv /\ OneOwner /\ Send => PoolInv' /\ OneOwner'
  <1> SUFFICES ASSUME PoolInv, OneOwner, Send PROVE PoolInv' /\ OneOwner'
    OBVIOUS
  <1>1. writer' = writer /\ reader.buf \in Buffers
    BY Zenon DEF Send, PoolInv, FrameReader
  <1>2. CASE Len(queue) < Depth /\ queue' = Append(queue, reader.buf) /\ reader' = Free("get") /\ free' = free
    <2>1. reader'.buf = None /\ reader'.pc = "get"
      BY Zenon, <1>2 DEF Free, Holding
    <2>2. /\ Len(queue) \in Nat /\ Len(queue') = Len(queue) + 1 /\ queue' \in Seq(Buffers)
          /\ queue'[Len(queue) + 1] = reader.buf /\ \A i \in 1 .. Len(queue) : queue'[i] = queue[i]
      BY <1>1, <1>2 DEF PoolInv
    <2>3. \A b : Queued(b)' <=> Queued(b) \/ b = reader.buf
      BY <2>2 DEF Queued
    <2>4. ~Queued(reader.buf)
      BY Zenon, <1>1 DEF OneOwner
    <2>5. PoolInv'
      BY <1>1, <1>2, <2>1, <2>2, MeshTunnelAssumption DEF PoolInv
    <2>6. \A i, j \in 1 .. Len(queue') : queue'[i] = queue'[j] => i = j
      BY <2>2, <2>4 DEF OneOwner, Queued
    <2>7. \A b \in Buffers : Owned(b)'
      BY Zenon, <1>1, <1>2, <2>1, <2>3, MeshTunnelAssumption DEF OneOwner, Owned
    <2> QED BY Zenon, <2>5, <2>6, <2>7 DEF OneOwner, Owned
  <1>3. CASE reader' = Free("done") /\ free' = free \cup {reader.buf} /\ queue' = queue
    <2>1. reader'.buf = None /\ reader'.pc = "done"
      BY Zenon, <1>3 DEF Free, Holding
    <2> QED BY <1>1, <1>3, <2>1, MeshTunnelAssumption DEF OneOwner, Queued, PoolInv
  <1> QED BY Zenon, <1>2, <1>3 DEF Send

\* The writer takes a buffer from the head of the queue, and returns it.
LEMMA SelectStep == PoolInv /\ OneOwner /\ Select => PoolInv' /\ OneOwner'
  <1> SUFFICES ASSUME PoolInv, OneOwner, Select PROVE PoolInv' /\ OneOwner'
    OBVIOUS
  <1>1. reader' = reader /\ free' = free /\ writer.buf = None
    BY Zenon, MeshTunnelAssumption DEF Select, PoolInv, FramePump
  <1>2. CASE queue # <<>> /\ writer' = Holding("write", Head(queue)) /\ queue' = Tail(queue)
    <2>0. PICK h \in Buffers : h = queue[1]
      BY <1>2 DEF PoolInv
    <2>1. writer'.buf = h /\ writer'.pc = "write"
      BY <1>2, <2>0 DEF Holding, PoolInv
    <2>2. /\ Len(queue) \in Nat /\ Len(queue) > 0 /\ Len(queue') = Len(queue) - 1 /\ queue' \in Seq(Buffers)
          /\ \A i \in 1 .. Len(queue') : queue'[i] = queue[i + 1]
      BY <1>2 DEF PoolInv
    <2>3. \A b : Queued(b)' => Queued(b)
      BY <2>2 DEF Queued
    <2>4. Queued(h) /\ ~Queued(h)'
      BY <2>0, <2>2 DEF OneOwner, Queued
    <2>5. \A b : Queued(b) /\ b # h => Queued(b)'
      <3> SUFFICES ASSUME NEW b, Queued(b), b # h PROVE Queued(b)'
        BY Zenon
      <3>1. PICK i \in 1 .. Len(queue) : queue[i] = b
        BY Zenon DEF Queued
      <3>2. i - 1 \in 1 .. Len(queue') /\ queue'[i - 1] = b
        BY <2>0, <2>2, <3>1
      <3> QED BY Zenon, <3>2 DEF Queued
    <2>6. PoolInv'
      BY <1>1, <2>1, <2>2, MeshTunnelAssumption DEF PoolInv
    <2>7. ASSUME NEW i \in 1 .. Len(queue'), NEW j \in 1 .. Len(queue'), queue'[i] = queue'[j] PROVE i = j
      <3>1. i + 1 \in 1 .. Len(queue) /\ j + 1 \in 1 .. Len(queue) /\ queue[i + 1] = queue[j + 1]
        BY <2>2, <2>7
      <3>2. i + 1 = j + 1
        BY Zenon, <3>1 DEF OneOwner
      <3> QED BY <2>2, <3>2
    <2>8. ASSUME NEW b \in Buffers PROVE Owned(b)'
      <3>1. Owned(b)
        BY Zenon DEF OneOwner, Owned
      <3>2. CASE b = h
        BY Zenon, <1>1, <2>1, <2>4, <3>1, <3>2, MeshTunnelAssumption DEF Owned
      <3>3. CASE b # h
        <4>1. Queued(b)' <=> Queued(b)
          BY Zenon, <2>3, <2>5, <3>3
        <4>2. writer'.buf # b /\ writer.buf # b
          BY Zenon, <1>1, <2>1, <3>3, MeshTunnelAssumption
        <4> QED BY Zenon, <1>1, <3>1, <4>1, <4>2 DEF Owned
      <3> QED BY Zenon, <3>2, <3>3
    <2> QED BY Zenon, <2>6, <2>7, <2>8 DEF OneOwner, Owned
  <1>3. CASE writer' = Free("done") /\ queue' = queue
    <2>1. writer'.buf = None /\ writer'.pc = "done"
      BY <1>3 DEF Free, Holding
    <2> QED BY ZenonT(40), <1>1, <1>3, <2>1 DEF OneOwner, Queued, PoolInv
  <1> QED BY Zenon, <1>2, <1>3 DEF Select

\* WritePacket gives its buffer back whether or not the write succeeds.
LEMMA WriteStep == PoolInv /\ OneOwner /\ WritePacket => PoolInv' /\ OneOwner'
  <1> SUFFICES ASSUME PoolInv, OneOwner, WritePacket PROVE PoolInv' /\ OneOwner'
    OBVIOUS
  <1>1. /\ reader' = reader /\ queue' = queue /\ free' = free \cup {writer.buf}
        /\ writer.buf \in Buffers
    BY Zenon DEF WritePacket, PoolInv, FramePump
  <1>2. writer'.buf = None /\ writer'.pc \in {"select", "done"}
    BY DEF WritePacket, Free, Holding
  <1> QED BY <1>1, <1>2, MeshTunnelAssumption DEF OneOwner, Queued, PoolInv

\* The other steps leave the buffers where they are; a session that starts finds no
\* writer that still holds one.
LEMMA TunnelStep == TunnelInv /\ [Next]_vars => TunnelInv'
  <1> SUFFICES ASSUME TunnelInv, [Next]_vars PROVE TunnelInv'
    OBVIOUS
  <1>1. SessionInv /\ PoolInv /\ OneOwner /\ SessionInv'
    BY Zenon, SessionStep DEF TunnelInv
  <1>2. ASSUME free' = free, queue' = queue, reader' = reader, writer' = writer PROVE TunnelInv'
    BY Zenon, <1>1, <1>2 DEF TunnelInv, PoolInv, OneOwner, Queued
  <1>3. CASE Ready \/ Stopping \/ Closing \/ SessionLost \/ DeviceGone \/ ReadPacket \/ UNCHANGED vars
    BY Zenon, <1>2, <1>3 DEF Ready, Stopping, CallClose, Cancel, Closing, Close, CloseDone, SessionLost,
                      DeviceGone, ReadPacket, FramePump, vars, pool
  <1>4. CASE run \/ dialHTTP3 \/ SessionError \/ PumpsWait \/ Lost \/ Backoff \/ Exit
    BY Zenon, <1>2, <1>4 DEF run, dialHTTP3, SessionError, PumpsWait, Lost, Backoff, Exit, FrameSup, pool
  <1>5. CASE Connected
    <2>1. free' = free /\ queue' = queue /\ reader' = reader /\ writer.buf = None
      BY Zenon, <1>1, <1>5, MeshTunnelAssumption DEF Connected, FrameSup, pool, SessionInv, PoolInv
    <2>2. writer' = writer \/ (writer'.buf = None /\ writer'.pc = "select")
      BY <1>5 DEF Connected, Free, Holding
    <2> QED BY ZenonT(40), <1>1, <2>1, <2>2 DEF TunnelInv, PoolInv, OneOwner, Queued
  <1>6. CASE Reader
    BY Zenon, <1>1, <1>6, GetStep, ReadStep, SendStep DEF TunnelInv, Reader
  <1>7. CASE Writer
    BY Zenon, <1>1, <1>7, SelectStep, WriteStep DEF TunnelInv, Writer
  <1> QED BY Zenon, <1>1, <1>3, <1>4, <1>5, <1>6, <1>7 DEF TunnelInv, Next, Supervisor

\* Every buffer has exactly one owner in every state of every run, for any pool and queue.
THEOREM BuffersOwned == Spec => []OneOwner
  <1>1. Spec => []TunnelInv
    BY TunnelInit, TunnelStep, PTL DEF Spec
  <1>2. TunnelInv => OneOwner
    BY Zenon DEF TunnelInv
  <1> QED BY <1>1, <1>2, PTL

-----------------------------------------------------------------------------
(* The goroutines of Daemon: the channel of events of the own lease is     *)
(* closed once, and under a sender only while the daemon is being stopped, *)
(* for any number of lease changes and any faults.                         *)

\* ClosedSafely is not inductive: the watcher closes the channel after its watch
\* ended, which only the cancelled context does, or after its first read failed,
\* when it has handed the relay nothing to send.
CloseInv ==
  /\ ClosedSafely
  /\ watcher = "closing" => cancelled
  /\ watcher \in {"off", "read", "failing"} => relay # "send"

\* When main starts, no channel is closed and the goroutines are not started.
LEMMA CloseInit == DaemonInit => CloseInv
  BY Zenon DEF DaemonInit, CloseInv, ClosedSafely

\* main's steps leave the goroutines of the own lease alone, but for CompleteLease,
\* which starts them.
LEMMA MainKeeps ==
  ASSUME CloseInv,
         GetConfig \/ Startup \/ RenewLease \/ StoppedMonitoring \/ WaitDone
  PROVE  CloseInv'
  <1>1. CASE GetConfig
    BY Zenon, <1>1 DEF CloseInv, ClosedSafely, GetConfig, Goto, MainFrame, pipeline2
  <1>2. CASE Startup
    <2>1. CASE FindInterface
      BY Zenon, <2>1 DEF CloseInv, ClosedSafely, FindInterface, Goto, osExit, MainFrame, pipeline2
    <2>2. CASE RegisterNetwork
      BY Zenon, <2>2 DEF CloseInv, ClosedSafely, RegisterNetwork, MainFrame, pipeline2
    <2>3. CASE SetupRules
      BY Zenon, <2>3 DEF CloseInv, ClosedSafely, SetupRules, Goto, Fail, MainFrame, pipeline2
    <2>4. CASE HandleSubnetFile
      BY Zenon, <2>4 DEF CloseInv, ClosedSafely, HandleSubnetFile, Goto, MainFrame, pipeline2
    <2>5. CASE StartRun
      BY Zenon, <2>5 DEF CloseInv, ClosedSafely, StartRun, pipeline2
    <2>6. CASE CompleteLease
      BY Zenon, <2>6 DEF CloseInv, ClosedSafely, CompleteLease
    <2> QED BY Zenon, <1>2, <2>1, <2>2, <2>3, <2>4, <2>5, <2>6 DEF Startup
  <1>3. CASE RenewLease
    BY Zenon, <1>3 DEF CloseInv, ClosedSafely, RenewLease, MainFrame, pipeline2
  <1>4. CASE StoppedMonitoring
    BY Zenon, <1>4 DEF CloseInv, ClosedSafely, StoppedMonitoring, MainFrame, pipeline2
  <1>5. CASE WaitDone
    BY Zenon, <1>5 DEF CloseInv, ClosedSafely, WaitDone, osExit, MainFrame, pipeline2
  <1> QED BY Zenon, <1>1, <1>2, <1>3, <1>4, <1>5

\* The signal, the health server, the backend's waiters and the pipeline of all
\* leases touch neither the relay nor its watcher, and never take cancel back.
LEMMA OthersKeep ==
  ASSUME CloseInv,
         \/ Signal \/ shutdownHandler \/ StopHealthz \/ HealthzPanics \/ routeCheck
         \/ RemoveDevice
         \/ List \/ SubnetsEvent \/ HandOver \/ Batch \/ LeaveLoop \/ RunReturns \/ CloseEvts
  PROVE  CloseInv'
  <1>1. CASE Signal \/ shutdownHandler \/ StopHealthz \/ routeCheck \/ RemoveDevice
    BY Zenon, <1>1 DEF CloseInv, ClosedSafely, Signal, shutdownHandler, StopHealthz, routeCheck,
                RemoveDevice, Others, pipeline2
  <1>2. CASE HealthzPanics
    BY Zenon, <1>2 DEF CloseInv, ClosedSafely, HealthzPanics, pipeline2
  <1>3. CASE List \/ SubnetsEvent \/ HandOver \/ Batch \/ LeaveLoop \/ RunReturns \/ CloseEvts
    BY Zenon, <1>3 DEF CloseInv, ClosedSafely, List, SubnetsEvent, HandOver, Batch, LeaveLoop,
                RunReturns, CloseEvts, Leases, pipeline2
  <1> QED BY Zenon, <1>1, <1>2, <1>3

\* The steps of the own lease. WatcherCloses is the one that may find a sender.
LEMMA OwnLeaseKeeps ==
  ASSUME CloseInv,
         ReadOwn \/ watchSubnet \/ WatcherCloses \/ PassOn \/ Deliver \/ RelayCloses
  PROVE  CloseInv'
  <1>1. CASE ReadOwn
    BY Zenon, <1>1 DEF CloseInv, ClosedSafely, ReadOwn, OwnLease
  <1>2. CASE watchSubnet
    BY Zenon, <1>2 DEF CloseInv, ClosedSafely, watchSubnet, OwnLease
  <1>3. CASE WatcherCloses
    <2>1. cancelled' = cancelled /\ relay' = relay /\ watcher' \in {"done", "failed"}
      BY Zenon, <1>3 DEF WatcherCloses, OwnLease
    <2>2. CASE relay = "send"
      <3>1. watcher = "closing" /\ cancelled
        BY Zenon, <1>3, <2>2 DEF CloseInv, WatcherCloses
      <3>2. code' \in {code, "sendClosed"}
        BY Zenon, <1>3, <2>2 DEF WatcherCloses, closeReceiver, closeChan, Panic
      <3> QED BY Zenon, <2>1, <3>1, <3>2 DEF CloseInv, ClosedSafely
    <2>3. CASE relay # "send"
      <3>1. code' = code
        BY Zenon, <1>3, <2>3 DEF WatcherCloses, closeReceiver, closeChan
      <3> QED BY Zenon, <2>1, <3>1 DEF CloseInv, ClosedSafely
    <2> QED BY Zenon, <2>2, <2>3
  <1>4. CASE PassOn
    BY Zenon, <1>4 DEF CloseInv, ClosedSafely, PassOn, OwnLease
  <1>5. CASE Deliver
    BY Zenon, <1>5 DEF CloseInv, ClosedSafely, Deliver
  <1>6. CASE RelayCloses
    BY Zenon, <1>6 DEF CloseInv, ClosedSafely, RelayCloses, OwnLease, closeReceiver, closeChan
  <1> QED BY Zenon, <1>1, <1>2, <1>3, <1>4, <1>5, <1>6

\* subnet.WatchLease never closes its channel of events twice, and a send on the
\* closed channel (a panic) happens only after the context was cancelled.
THEOREM ChannelClosedSafely == DaemonSpec => []ClosedSafely
  <1>1. DaemonInit => CloseInv
    BY Zenon, CloseInit
  <1>2. CloseInv /\ [DaemonNext]_daemonVars => CloseInv'
    <2> SUFFICES ASSUME CloseInv, [DaemonNext]_daemonVars PROVE CloseInv'
      OBVIOUS
    <2>1. CASE UNCHANGED daemonVars
      BY Zenon, <2>1 DEF CloseInv, ClosedSafely, daemonVars
    <2>2. CASE DaemonNext
      BY Zenon, <2>2, MainKeeps, OthersKeep, OwnLeaseKeeps DEF DaemonNext
    <2> QED BY Zenon, <2>1, <2>2
  <1>3. CloseInv => ClosedSafely
    BY Zenon DEF CloseInv
  <1> QED BY <1>1, <1>2, <1>3, PTL DEF DaemonSpec

-----------------------------------------------------------------------------
(* The number of buffers. From here on the library of finite sets is in    *)
(* use.                                                                    *)

INSTANCE FiniteSetTheorems

\* The elements of a sequence are at most as many as its places.
LEMMA ImageSize ==
  ASSUME NEW n \in Nat, NEW q
  PROVE  /\ IsFiniteSet({q[i] : i \in 1 .. n})
         /\ Cardinality({q[i] : i \in 1 .. n}) <= n
  <1> DEFINE Q == {q[i] : i \in 1 .. n}
  <1>1. IsFiniteSet(1 .. n) /\ Cardinality(1 .. n) = n
    BY FS_Interval
  <1>2. [i \in 1 .. n |-> q[i]] \in Surjection(1 .. n, Q)
    BY Zenon DEF Surjection
  <1> HIDE DEF Q
  <1>3. IsFiniteSet(Q) /\ Cardinality(Q) <= n
    BY SMTT(30), <1>1, <1>2, FS_Surjection
  <1> QED BY Zenon, <1>3 DEF Q

\* With an empty freelist and a reader without a buffer all of them would be in the queue
\* or with the writer, one more than fit there.
LEMMA ReaderServed == TunnelInv => BufferForReader
  <1> SUFFICES ASSUME TunnelInv, reader.pc = "get", free = {} PROVE FALSE
    BY Zenon DEF BufferForReader
  <1>1. PoolInv /\ OneOwner /\ reader.buf = None
    BY Zenon, MeshTunnelAssumption DEF TunnelInv, PoolInv
  <1> DEFINE n == Len(queue)
  <1> DEFINE Q == {queue[i] : i \in 1 .. n}
  <1>2. n \in Nat /\ n <= Depth
    BY SMTT(30), <1>1 DEF PoolInv
  <1>3. Buffers \subseteq Q \cup {writer.buf}
    BY Zenon, <1>1, MeshTunnelAssumption DEF OneOwner, Queued
  <1>5. IsFiniteSet(Q) /\ Cardinality(Q) <= n
    BY Zenon, <1>2, ImageSize
  <1> HIDE DEF n, Q
  <1>6. IsFiniteSet(Q \cup {writer.buf}) /\ Cardinality(Q \cup {writer.buf}) <= n + 1
    <2>1. Cardinality(Q) \in Nat
      BY Zenon, <1>5, FS_CardinalityType
    <2>2. /\ IsFiniteSet(Q \cup {writer.buf})
          /\ Cardinality(Q \cup {writer.buf}) = Cardinality(Q) \/ Cardinality(Q \cup {writer.buf}) = Cardinality(Q) + 1
      BY Zenon, <1>5, FS_AddElement
    <2> QED BY <1>2, <1>5, <2>1, <2>2
  <1>7. Cardinality(Buffers) <= Cardinality(Q \cup {writer.buf})
    BY Zenon, <1>3, <1>6, FS_Subset
  <1>8. Cardinality(Buffers) \in Nat /\ Cardinality(Q \cup {writer.buf}) \in Nat
    BY Zenon, <1>6, FS_CardinalityType, MeshTunnelAssumption
  <1> QED BY SMTT(30), <1>2, <1>6, <1>7, <1>8, MeshTunnelAssumption

\* The TUN reader never waits for a buffer, whatever the sizes of the pool and of the queue
\* as long as the pool has two more.
THEOREM ReaderNeverStarves == Spec => []BufferForReader
  <1>1. Spec => []TunnelInv
    BY TunnelInit, TunnelStep, PTL DEF Spec
  <1> QED BY <1>1, ReaderServed, PTL

\* When Close has returned, the device, the session and the goroutines are gone, however
\* many sessions there were.
THEOREM CloseComplete == Spec => []ClosedForGood
  <1>1. Spec => []TunnelInv
    BY TunnelInit, TunnelStep, PTL DEF Spec
  <1>2. TunnelInv => ClosedForGood
    BY Zenon DEF TunnelInv, SessionInv, ClosedForGood
  <1> QED BY <1>1, <1>2, PTL
=============================================================================
