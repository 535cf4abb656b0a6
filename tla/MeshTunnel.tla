----------------------------- MODULE MeshTunnel -----------------------------
(***************************************************************************)
(* The MASQUE tunnel of the cloudflare-mesh backend                        *)
(* (pkg/backend/cloudflaremesh/masque_linux.go and tunbuffer.go): the      *)
(* supervisor that keeps a session up, the goroutine that reads the TUN    *)
(* device, the two pumps of a session, the pool of buffers that packets    *)
(* travel in, and Close. Each goroutine is a process; a select with        *)
(* several ready cases takes any of them.                                  *)
(*                                                                         *)
(* Abstractions: the two-minute status reports of a session change nothing *)
(* here and are left out. A QUIC send ends, because an idle connection is  *)
(* given up; a dial and a report end by their timeouts.                    *)
(*                                                                         *)
(* External: the Cloudflare side (sessions that fail or are refused), the  *)
(* TUN device, and the caller that closes the transport.                   *)
(***************************************************************************)
EXTENDS Naturals, Sequences, FiniteSets

CONSTANTS
  Buffers,                  \* tunBufferPoolSize of them
  Depth,                    \* outboundQueueDepth
  None,
  MaxLosses                 \* sessions lost or refused, and a device removed

\* "tunBufferPoolSize must exceed outboundQueueDepth": a buffer each for reader and writer.
ASSUME MeshTunnelAssumption ==
  /\ IsFiniteSet(Buffers) /\ None \notin Buffers
  /\ Depth \in Nat \ {0} /\ MaxLosses \in Nat
  /\ Cardinality(Buffers) >= Depth + 2

VARIABLES
  caller,                   \* startNativeTransport and its caller
  ctx, ready, tun,          \* the context is cancelled, ready is closed, the TUN device
  free, queue, qclosed,     \* the pool's freelist and the channel outbound
  reader,                   \* the goroutine that reads the TUN device
  sup, delay,               \* run and runSession
  conn, errs,               \* the session's connection and errCh
  writer, inbound,          \* the pumps of the session
  losses

pool == <<free, queue, qclosed>>
session == <<conn, errs, inbound>>
vars == <<caller, ctx, ready, tun, pool, reader, sup, delay, session, writer, losses>>

Holding(p, b) == [pc |-> p, buf |-> b]
Free(p) == Holding(p, None)
CountLoss == losses < MaxLosses /\ losses' = losses + 1

-----------------------------------------------------------------------------
\* The caller.

Ready ==
  /\ caller = "wait" /\ ready
  /\ caller' = "running"
  /\ UNCHANGED <<ctx, ready, tun, pool, reader, sup, delay, session, writer, losses>>

\* The context ends or ConnectWait passes before the tunnel is up; later, AcquireLease or
\* the routes fail, or the network shuts down.
CallClose ==
  /\ caller \in {"wait", "running"}
  /\ caller' = "close"
  /\ UNCHANGED <<ctx, ready, tun, pool, reader, sup, delay, session, writer, losses>>

\* The caller's context may end before Close is called.
Cancel ==
  /\ caller = "running" /\ ~ctx
  /\ ctx' = TRUE
  /\ UNCHANGED <<caller, ready, tun, pool, reader, sup, delay, session, writer, losses>>

\* Close: a last report if the tunnel was up, cancel, and close the device so that the
\* TUN reader wakes.
Close ==
  /\ caller = "close"
  /\ caller' = "closing" /\ ctx' = TRUE /\ tun' = "closed"
  /\ UNCHANGED <<ready, pool, reader, sup, delay, session, writer, losses>>

\* Close waits for done.
CloseDone ==
  /\ caller = "closing" /\ sup = "done"
  /\ caller' = "closed"
  /\ UNCHANGED <<ctx, ready, tun, pool, reader, sup, delay, session, writer, losses>>

-----------------------------------------------------------------------------
\* The TUN reader.

FrameReader == UNCHANGED <<caller, ctx, ready, tun, sup, delay, session, writer>>

\* Any free buffer is as good as another.
get ==
  /\ reader.pc = "get"
  /\ \/ /\ free # {}
        /\ LET b == CHOOSE b \in free : TRUE IN reader' = Holding("read", b) /\ free' = free \ {b}
     \/ ctx /\ reader' = Free("done") /\ UNCHANGED free
  /\ UNCHANGED <<queue, qclosed, losses>> /\ FrameReader

\* Read returns a packet, or an error once the device is gone.
Read ==
  /\ reader.pc = "read"
  /\ \/ /\ tun = "open"
        /\ reader' = [reader EXCEPT !.pc = "send"] /\ UNCHANGED pool
     \/ /\ tun # "open" /\ reader' = Free("done")
        /\ free' = free \cup {reader.buf} /\ qclosed' = TRUE
        /\ UNCHANGED queue
  /\ UNCHANGED losses /\ FrameReader

\* Mutant: the queue is as deep as the pool.
sendDeep ==
  /\ reader.pc = "send"
  /\ \/ /\ Len(queue) < Cardinality(Buffers)
        /\ queue' = Append(queue, reader.buf) /\ reader' = Free("get") /\ UNCHANGED free
     \/ ctx /\ free' = free \cup {reader.buf} /\ reader' = Free("done") /\ UNCHANGED queue
  /\ UNCHANGED <<qclosed, losses>> /\ FrameReader

\* Mutant: the reader waits for room in the queue only.
sendBlocking ==
  /\ reader.pc = "send"
  /\ Len(queue) < Depth /\ queue' = Append(queue, reader.buf) /\ reader' = Free("get")
  /\ UNCHANGED <<free, qclosed, losses>> /\ FrameReader

\* The packet is queued unless the transport ends first.
Send ==
  /\ reader.pc = "send"
  /\ \/ Len(queue) < Depth /\ queue' = Append(queue, reader.buf) /\ reader' = Free("get") /\ UNCHANGED free
     \/ ctx /\ free' = free \cup {reader.buf} /\ reader' = Free("done") /\ UNCHANGED queue
  /\ UNCHANGED <<qclosed, losses>> /\ FrameReader

-----------------------------------------------------------------------------
\* The supervisor: run, and runSession within it.

FrameSup == UNCHANGED <<caller, pool, reader>>

\* The first report, whatever becomes of it, and the test of the loop.
run ==
  /\ sup = "init"
  /\ sup' = IF ctx THEN "exit" ELSE "dial"
  /\ UNCHANGED <<ctx, ready, tun, delay, session, writer, losses>> /\ FrameSup

\* dialHTTP3 and the checks before it.
dialHTTP3 ==
  /\ sup = "dial"
  /\ \/ conn' = "open" /\ sup' = "hello" /\ UNCHANGED losses
     \/ CountLoss /\ sup' = "lost" /\ UNCHANGED conn
     \/ ctx /\ sup' = "lost" /\ UNCHANGED <<conn, losses>>
  /\ UNCHANGED <<ctx, ready, tun, delay, errs, writer, inbound>> /\ FrameSup

\* Mutant: the pumps are started with the first session only.
connectedOnce ==
  /\ sup = "hello"
  /\ \/ /\ sup' = "up" /\ ready' = TRUE /\ errs' = 0 /\ UNCHANGED <<conn, losses>>
        /\ IF ready THEN UNCHANGED <<writer, inbound>>
                    ELSE writer' = Free("select") /\ inbound' = "read"
     \/ /\ IF ctx THEN UNCHANGED losses ELSE CountLoss
        /\ sup' = "lost" /\ conn' = "none" /\ UNCHANGED <<ready, errs, writer, inbound>>
  /\ UNCHANGED <<ctx, tun, delay>> /\ FrameSup

\* Status and the report "Connected"; the transport is ready and the pumps start.
Connected ==
  /\ sup = "hello"
  /\ \/ /\ sup' = "up" /\ ready' = TRUE /\ errs' = 0
        /\ writer' = Free("select") /\ inbound' = "read" /\ UNCHANGED <<conn, losses>>
     \/ /\ IF ctx THEN UNCHANGED losses ELSE CountLoss
        /\ sup' = "lost" /\ conn' = "none" /\ UNCHANGED <<ready, errs, writer, inbound>>
  /\ UNCHANGED <<ctx, tun, delay>> /\ FrameSup

\* The first error of a pump ends the session: cancelSession and ipConn.Close.
SessionError ==
  /\ sup = "up" /\ errs > 0
  /\ sup' = "drain" /\ conn' = "lost"
  /\ UNCHANGED <<ctx, ready, tun, delay, errs, writer, inbound, losses>> /\ FrameSup

\* Mutant: runSession returns without waiting for the pumps.
pumpsLeft ==
  /\ sup = "drain"
  /\ sup' = "lost" /\ conn' = "none"
  /\ UNCHANGED <<ctx, ready, tun, delay, errs, writer, inbound, losses>> /\ FrameSup

\* pumps.Wait, and closeSession as runSession returns.
PumpsWait ==
  /\ sup = "drain" /\ writer.pc = "done" /\ inbound = "done"
  /\ sup' = "lost" /\ conn' = "none"
  /\ UNCHANGED <<ctx, ready, tun, delay, errs, writer, inbound, losses>> /\ FrameSup

\* A session that lasted sessionHealthyAfter resets the backoff.
Lost ==
  /\ sup = "lost"
  /\ IF ctx THEN sup' = "exit" /\ UNCHANGED delay
            ELSE sup' = "backoff" /\ delay' \in {delay, 1}
  /\ UNCHANGED <<ctx, ready, tun, session, writer, losses>> /\ FrameSup

Doubled(d) == IF d < 30 THEN (IF 2 * d > 30 THEN 30 ELSE 2 * d) ELSE d

Backoff ==
  /\ sup = "backoff"
  /\ \/ ctx /\ sup' = "exit" /\ UNCHANGED delay
     \/ delay' = Doubled(delay) /\ sup' = IF ctx THEN "exit" ELSE "dial"
  /\ UNCHANGED <<ctx, ready, tun, session, writer, losses>> /\ FrameSup

\* The deferred calls: the device is closed, and then done.
Exit ==
  /\ sup = "exit"
  /\ sup' = "done" /\ tun' = "closed"
  /\ UNCHANGED <<ctx, ready, delay, session, writer, losses>> /\ FrameSup

-----------------------------------------------------------------------------
\* The pumps.

Stopped == ctx \/ sup # "up"      \* sessionCtx is done
FramePump == UNCHANGED <<caller, ctx, ready, tun, reader, sup, delay, conn, losses>>

\* The writer waits for the end of the session or for a packet.
Select ==
  /\ writer.pc = "select"
  /\ \/ Stopped /\ writer' = Free("done") /\ errs' = errs + 1 /\ UNCHANGED queue
     \/ /\ queue # <<>>
        /\ writer' = Holding("write", Head(queue)) /\ queue' = Tail(queue) /\ UNCHANGED errs
     \/ /\ queue = <<>> /\ qclosed
        /\ writer' = Free("done") /\ errs' = errs + 1 /\ UNCHANGED queue
  /\ UNCHANGED <<free, qclosed, inbound>> /\ FramePump

\* Mutant: the buffer is only returned after a packet that was sent.
writeLeaking ==
  /\ writer.pc = "write"
  /\ \/ conn = "open" /\ writer' = Free("select") /\ free' = free \cup {writer.buf} /\ UNCHANGED errs
     \/ (conn = "lost" \/ tun # "open") /\ writer' = Free("done") /\ errs' = errs + 1 /\ UNCHANGED free
  /\ UNCHANGED <<queue, qclosed, inbound>> /\ FramePump

\* WritePacketBuffer, and an ICMP answer to the device; the buffer is free in any case.
WritePacket ==
  /\ writer.pc = "write"
  /\ free' = free \cup {writer.buf}
  /\ \/ conn = "open" /\ writer' = Free("select") /\ UNCHANGED errs
     \/ (conn = "lost" \/ tun # "open") /\ writer' = Free("done") /\ errs' = errs + 1
  /\ UNCHANGED <<queue, qclosed, inbound>> /\ FramePump

\* The other pump ends when the connection or, at the next packet, the device does.
ReadPacket ==
  /\ inbound = "read" /\ (conn = "lost" \/ tun # "open")
  /\ inbound' = "done" /\ errs' = errs + 1
  /\ UNCHANGED <<free, queue, qclosed, writer>> /\ FramePump

-----------------------------------------------------------------------------
\* The other side of the connection, and of the device.

SessionLost ==
  /\ sup = "up" /\ conn = "open"
  /\ conn' = "lost" /\ CountLoss
  /\ UNCHANGED <<caller, ctx, ready, tun, pool, reader, sup, delay, errs, writer, inbound>>

DeviceGone ==
  /\ tun = "open"
  /\ tun' = "gone" /\ CountLoss
  /\ UNCHANGED <<caller, ctx, ready, pool, reader, sup, delay, session, writer>>

Init ==
  /\ caller = "wait" /\ ctx = FALSE /\ ready = FALSE /\ tun = "open"
  /\ free = Buffers /\ queue = <<>> /\ qclosed = FALSE
  /\ reader = Free("get") /\ sup = "init" /\ delay = 1
  /\ conn = "none" /\ errs = 0 /\ writer = Free("done") /\ inbound = "done"
  /\ losses = 0

Supervisor ==
  \/ run \/ dialHTTP3 \/ Connected \/ SessionError \/ PumpsWait \/ Lost \/ Backoff \/ Exit
Writer == Select \/ WritePacket
Reader == get \/ Read \/ Send
Closing == Close \/ CloseDone
Stopping == CallClose \/ Cancel

Next ==
  \/ Ready \/ Stopping \/ Closing \/ Reader \/ Supervisor \/ Writer \/ ReadPacket
  \/ SessionLost \/ DeviceGone

Spec == Init /\ [][Next]_vars

\* Every goroutine goes on; a caller whose context has ended calls Close.
FairSpec ==
  /\ Spec /\ WF_vars(Ready) /\ WF_vars(ctx /\ CallClose) /\ WF_vars(Closing)
  /\ WF_vars(Reader) /\ WF_vars(Supervisor) /\ WF_vars(Writer) /\ WF_vars(ReadPacket)

-----------------------------------------------------------------------------
Queued(b) == \E i \in 1 .. Len(queue) : queue[i] = b

\* "exactly one stage owning a buffer at any time": free, queued, with the reader or with
\* the writer, and never lost, however sessions end.
OneOwner ==
  /\ \A b \in Buffers :
       \/ b \in free /\ ~Queued(b) /\ reader.buf # b /\ writer.buf # b
       \/ b \notin free /\ Queued(b) /\ reader.buf # b /\ writer.buf # b
       \/ b \notin free /\ ~Queued(b) /\ reader.buf = b /\ writer.buf # b
       \/ b \notin free /\ ~Queued(b) /\ reader.buf # b /\ writer.buf = b
  /\ \A i, j \in 1 .. Len(queue) : queue[i] = queue[j] => i = j

\* The reader finds a buffer whenever it wants one: it is held up by a full queue only,
\* so that packets are never stuck between sessions for want of a buffer.
BufferForReader == reader.pc = "get" => free # {}

\* "callers can rely on the interface being gone once it does": when Close returns, the
\* supervisor has ended, no pump is left that could write to the device, and no
\* session is open.
ClosedForGood ==
  caller = "closed" => tun = "closed" /\ sup = "done" /\ conn = "none" /\ writer.pc = "done" /\ inbound = "done"

\* Close always returns, and so does the TUN reader: at whatever point of a dial, a
\* session or a backoff it is called.
CloseReturns == (caller = "close" \/ ctx) ~> (caller = "closed" /\ reader.pc = "done")

\* As long as the device is there and nobody closes the transport, every packet taken
\* from the device leaves the queue, and a lost session is replaced.
Reconnects ==
  LET interrupted == tun # "open" \/ ctx
  IN  /\ \A b \in Buffers : Queued(b) ~> (~Queued(b) \/ interrupted)
      /\ sup = "lost" ~> (sup = "up" \/ interrupted)
=============================================================================
