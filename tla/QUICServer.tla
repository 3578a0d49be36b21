----------------------------- MODULE QUICServer -----------------------------
(***************************************************************************)
(* A Transport, the server listening on it and the connections it hands    *)
(* out: the goroutine reading packets, the server's loop, one goroutine    *)
(* per handshake (handleNewConn), the connections' own loops, Accept, Dial *)
(* and the ways to close it all. Each step is what a goroutine does under  *)
(* one lock or between two blocking operations. A connection is abstract:  *)
(* it becomes ready, and it ends. A connection ID is the one the client    *)
(* chose (DCIDs) or the one named after the connection that issued it.     *)
(***************************************************************************)
EXTENDS Integers, Sequences, FiniteSets, Functions

CONSTANTS DCIDs, ServerConns, ClientConns,
          MaxAcceptQueueSize, Max0RTTQueues, Max0RTTQueueLen,
          MaxServerUnprocessedPackets, MaxRetries,
          Scenarios

None == "none"
Conns == ServerConns \union ClientConns
IDs == DCIDs \union Conns
Closers == {"listener", "transport", "reader", "dialer"}

VARIABLES sc,        \* the scenario: the transport's configuration, the packets,
                     \* the ways to end and close, and a bound on the packets
          tr,        \* the Transport
          handlers,  \* its map from connection IDs to packet handlers
          reader,    \* the goroutine in listen: [pc, pkt]
          srv,       \* the baseServer and its loop
          zero,      \* zeroRTTQueues: number of packets queued for an ID
          queue,     \* connQueue
          conn,      \* the connections
          hs,        \* the goroutines in handleNewConn
          closer,    \* the calls of Listener.Close and Transport.Close
          acc,       \* an Accept loop: [pc, conns]
          dial,      \* a Dial call: [pc, conn]
          received   \* number of packets received

vars == <<sc, tr, handlers, reader, srv, zero, queue, conn, hs, closer, acc, dial, received>>

Packet(type, id, token) == [type |-> type, id |-> id, token |-> token]
NoPacket == Packet("none", None, None)

(* A handler is a connection or the stand-in of a closed one. *)
Handler(c) == [kind |-> "conn", conn |-> c]
StandIn(c) == [kind |-> "closed", conn |-> c]   \* closedLocalConn, closedRemoteConn
NoHandler == [kind |-> None, conn |-> None]

NewConn == [st |-> None, ready |-> FALSE, req |-> None]

Init ==
    /\ sc \in Scenarios
    /\ tr = [closeErr |-> None, server |-> sc.listen, deadline |-> FALSE, doomed |-> {}]
    /\ handlers = [i \in IDs |-> NoHandler]
    /\ reader = [pc |-> "read", pkt |-> NoPacket]
    /\ srv = [pc |-> "check", pkt |-> NoPacket, conn |-> None, received |-> <<>>,
              retries |-> 0, closeErr |-> None, errorChan |-> FALSE,
              running |-> TRUE, stopAccepting |-> FALSE]
    /\ zero = [d \in DCIDs |-> 0]
    /\ queue = <<>>
    /\ conn = [c \in Conns |-> NewConn]
    /\ hs = [c \in ServerConns |-> None]
    /\ closer = [x \in Closers |-> "idle"]
    /\ acc = [pc |-> "idle", conns |-> {}]
    /\ dial = [pc |-> "idle", conn |-> None]
    /\ received = 0

-----------------------------------------------------------------------------
(* Connections *)

(* The context is done. *)
Done(c) == conn[c].st \in {"ended", "failed"}

Live(h) == h.kind = "conn"
Served(hm) == {h.conn : h \in {h \in Range(hm) : Live(h)}}
IsEmpty(h) == \A i \in IDs : h[i] = NoHandler

(* setCloseError: the first request counts *)
Request(cs, c, how) ==
    IF cs[c].req = None THEN [cs EXCEPT ![c].req = how] ELSE cs

RequestAll(cs, S, how) ==
    [c \in Conns |-> IF c \in S /\ cs[c].req = None THEN [cs[c] EXCEPT !.req = how] ELSE cs[c]]

(* maybeStopListening, for a transport made for one server or client *)
maybeStopListening(t) ==
    IF sc.singleUse /\ t.closeErr # None THEN [t EXCEPT !.deadline = TRUE] ELSE t

(* The handshake progresses far enough to hand the connection out. *)
Ready(c) ==
    /\ conn[c].st = "run" /\ ~conn[c].ready /\ conn[c].req = None
    /\ conn' = [conn EXCEPT ![c].ready = TRUE]
    /\ UNCHANGED <<sc, tr, handlers, reader, srv, zero, queue, hs, closer, acc, dial, received>>


(* The loop ends: RemoveAll after a timeout or destroy, ReplaceWithClosed  *)
(* after a close by either side; then the context is cancelled.            *)
Ends(c, how) ==
    /\ conn[c].st = "run"
    /\ IF conn[c].req = None THEN how \in sc.ends ELSE how = conn[c].req
    /\ how = "recreate" => c \in ClientConns /\ ~conn[c].ready
    /\ conn' = [conn EXCEPT ![c].st = "ended", ![c].req = how]
    /\ handlers' = [i \in IDs |->
                      IF handlers[i] # Handler(c) THEN handlers[i]
                      ELSE IF how \in {"close", "remote"} THEN StandIn(c) ELSE NoHandler]
    /\ UNCHANGED <<sc, tr, reader, srv, zero, queue, hs, closer, acc, dial, received>>

(* StartHandshake fails: run returns at once, and nothing is removed. *)
StartFails(c) ==
    /\ "start" \in sc.ends
    /\ conn[c].st = "run" /\ ~conn[c].ready
    /\ conn' = [conn EXCEPT ![c].st = "failed"]
    /\ UNCHANGED <<sc, tr, handlers, reader, srv, zero, queue, hs, closer, acc, dial, received>>

(* The stand-in of a closed connection expires. *)
Expire(c) ==
    /\ \E i \in IDs : handlers[i] = StandIn(c)
    /\ LET left == [i \in IDs |-> IF handlers[i] = StandIn(c) THEN NoHandler ELSE handlers[i]]
       IN /\ handlers' = left
          /\ tr' = IF IsEmpty(left) THEN maybeStopListening(tr) ELSE tr
    /\ UNCHANGED <<sc, reader, srv, zero, queue, conn, hs, closer, acc, dial, received>>

-----------------------------------------------------------------------------
(* The reader *)

(* A packet arrives. *)
ReadPacket(p) ==
    /\ reader.pc = "read" /\ received < sc.maxPackets /\ ~tr.deadline
    /\ received' = received + 1
    /\ reader' = IF handlers[p.id] # NoHandler
                 THEN reader                                  \* goes to its handler
                 ELSE [pc |-> "route", pkt |-> p]
    /\ UNCHANGED <<sc, tr, handlers, srv, zero, queue, conn, hs, closer, acc, dial>>

(* A packet for no known connection goes to the server, if there is one,   *)
(* it is still running and its queue has room.                             *)
handlePacket ==
    /\ reader.pc = "route"
    /\ reader' = [pc |-> "read", pkt |-> NoPacket]
    /\ \/ /\ tr.server /\ Len(srv.received) < MaxServerUnprocessedPackets
          /\ srv' = [srv EXCEPT !.received = Append(@, reader.pkt)]
       \/ /\ ~tr.server \/ Len(srv.received) = MaxServerUnprocessedPackets \/ srv.errorChan
          /\ UNCHANGED srv
    /\ UNCHANGED <<sc, tr, handlers, zero, queue, conn, hs, closer, acc, dial, received>>

(* A stateless reset: the connection that has the token is destroyed. *)
maybeHandleStatelessReset(c) ==
    /\ "reset" \in sc.ends
    /\ reader.pc = "read" /\ received < sc.maxPackets /\ ~tr.deadline
    /\ conn[c].st = "run" /\ conn[c].ready
    /\ received' = received + 1
    /\ conn' = Request(conn, c, "destroy")
    /\ UNCHANGED <<sc, tr, handlers, reader, srv, zero, queue, hs, closer, acc, dial>>

(* The deadline set by a closing goroutine ends the read. *)
ReaderStops ==
    /\ reader.pc = "read" /\ tr.deadline /\ tr.closeErr # None
    /\ reader' = [reader EXCEPT !.pc = "stopped"]
    /\ UNCHANGED <<sc, tr, handlers, srv, zero, queue, conn, hs, closer, acc, dial, received>>

(* Reading fails: the reader closes the transport and stops. *)
ReadError ==
    /\ "reader" \in sc.closers
    /\ reader.pc = "read" /\ closer["reader"] = "idle"
    /\ reader' = [reader EXCEPT !.pc = "closing"]
    /\ closer' = [closer EXCEPT !["reader"] = "close"]
    /\ UNCHANGED <<sc, tr, handlers, srv, zero, queue, conn, hs, acc, dial, received>>

-----------------------------------------------------------------------------
(* The server's loop *)

serverVars == <<sc, tr, reader, queue, closer, acc, dial, received>>

(* The loop looks at errorChan first; the select that follows may still    *)
(* take a packet when both are ready.                                      *)
ServerGoesOn ==
    /\ srv.pc = "check" /\ ~srv.errorChan
    /\ srv' = [srv EXCEPT !.pc = "wait"]
    /\ UNCHANGED <<serverVars, handlers, zero, conn, hs>>

ServerExits ==
    /\ srv.pc \in {"check", "wait"} /\ srv.running /\ srv.errorChan
    /\ srv' = [srv EXCEPT !.running = FALSE]
    /\ UNCHANGED <<serverVars, handlers, zero, conn, hs>>

Dequeued == [srv EXCEPT !.received = Tail(@), !.pc = "check"]

(* cleanupZeroRTTQueues, deferred by the handler of a packet: some of the  *)
(* queues that were there before have expired.                             *)
cleanupZeroRTTQueues(z) ==
    \E expired \in SUBSET {d \in DCIDs : zero[d] > 0} :
        zero' = [d \in DCIDs |-> IF d \in expired THEN 0 ELSE z[d]]

(* A variant that does not look for a connection again. *)

(* handle0RTTPacket: queued until the Initial arrives, within the limits. *)
handle0RTTPacket(d) ==
    /\ srv' = Dequeued
    /\ cleanupZeroRTTQueues(
          IF /\ sc.early
             /\ handlers[d] = NoHandler
             /\ zero[d] > 0 => zero[d] < Max0RTTQueueLen
             /\ zero[d] = 0 => Cardinality({e \in DCIDs : zero[e] > 0}) < Max0RTTQueues
          THEN [zero EXCEPT ![d] = @ + 1] ELSE zero)
    /\ UNCHANGED <<serverVars, handlers, conn, hs>>

(* The decisions of handleInitialImpl before a connection is made: a       *)
(* packet of a known connection goes there, a bad Retry token is answered  *)
(* with INVALID_TOKEN, no usable token with a Retry, and the callbacks may *)
(* refuse. A Retry and a refusal drop the 0-RTT packets.                   *)
Retries(token) == sc.retry /\ token \in {None, "stale"}

InitialDropped(p) ==
    /\ handlers[p.id] # NoHandler \/ p.token = "badRetry"
    /\ srv' = Dequeued
    /\ cleanupZeroRTTQueues(zero)

InitialRefused(p) ==
    /\ handlers[p.id] = NoHandler /\ p.token # "badRetry"
    /\ \/ Retries(p.token) /\ srv' = [Dequeued EXCEPT !.retries = IF @ < MaxRetries THEN @ + 1 ELSE @]
       \/ ~Retries(p.token) /\ sc.refuse /\ srv' = Dequeued
    /\ cleanupZeroRTTQueues([zero EXCEPT ![p.id] = 0])

(* A connection is made; it is not yet in the handler map. *)
InitialAccepted(p) ==
    /\ handlers[p.id] = NoHandler /\ p.token # "badRetry" /\ ~Retries(p.token)
    /\ \E c \in ServerConns : conn[c].st = None
    /\ srv' = [Dequeued EXCEPT !.pc = "add", !.pkt = p,
                               !.conn = CHOOSE c \in ServerConns : conn[c].st = None]
    /\ UNCHANGED zero

handlePacketImpl ==
    /\ srv.pc = "wait" /\ srv.running /\ srv.received # <<>>
    /\ LET p == Head(srv.received)
       IN \/ /\ p.type = "other"     \* another version, type or size: dropped or answered
             /\ srv' = Dequeued
             /\ cleanupZeroRTTQueues(zero)
             /\ UNCHANGED <<serverVars, handlers, conn, hs>>
          \/ p.type = "0rtt" /\ handle0RTTPacket(p.id)
          \/ /\ p.type = "initial"
             /\ InitialDropped(p) \/ InitialRefused(p) \/ InitialAccepted(p)
             /\ UNCHANGED <<serverVars, handlers, conn, hs>>

(* AddWithConnID: the ID the client chose may be in use by now. Then the   *)
(* new connection is told to close, and the loop waits for its context;    *)
(* nothing runs that connection, so the context is never done.             *)
AddWithConnID ==
    /\ srv.pc = "add"
    /\ cleanupZeroRTTQueues([zero EXCEPT ![srv.pkt.id] = 0])
    /\ IF handlers[srv.pkt.id] = NoHandler
       THEN /\ handlers' = [handlers EXCEPT ![srv.pkt.id] = Handler(srv.conn), ![srv.conn] = Handler(srv.conn)]
            /\ conn' = [conn EXCEPT ![srv.conn].st = "run"]
            /\ hs' = [hs EXCEPT ![srv.conn] = "wait"]
            /\ srv' = [srv EXCEPT !.pc = "check", !.conn = None, !.pkt = NoPacket]
       ELSE /\ conn' = [Request(conn, srv.conn, "close") EXCEPT ![srv.conn].st = "unstarted"]
            /\ srv' = [srv EXCEPT !.pc = "refuse"]
            /\ UNCHANGED <<handlers, hs>>
    /\ UNCHANGED serverVars

(* runSendQueue: a Retry leaves. *)
sendRetry ==
    /\ srv.retries > 0 /\ srv.running
    /\ srv' = [srv EXCEPT !.retries = @ - 1]
    /\ UNCHANGED <<serverVars, handlers, zero, conn, hs>>

(* Another connection issues itself an ID that the client also chose. *)
IDTaken(d) ==
    /\ sc.collide /\ handlers[d] = NoHandler
    /\ \E c \in ClientConns :
          /\ conn[c].st = "run"
          /\ handlers' = [handlers EXCEPT ![d] = Handler(c)]
    /\ UNCHANGED <<serverVars, srv, zero, conn, hs>>

-----------------------------------------------------------------------------
(* handleNewConn, one goroutine per handshake. A select with several cases *)
(* ready takes any of them.                                                *)

hsVars == <<sc, tr, handlers, reader, srv, zero, closer, acc, dial, received>>

HandshakeRefused(c) ==
    /\ hs[c] = "wait" /\ srv.errorChan
    /\ conn' = Request(conn, c, "close")
    /\ hs' = [hs EXCEPT ![c] = "closing"]
    /\ UNCHANGED <<hsVars, queue>>

HandshakeFailed(c) ==
    /\ hs[c] = "wait" /\ Done(c)
    /\ hs' = [hs EXCEPT ![c] = "done"]
    /\ UNCHANGED <<hsVars, queue, conn>>

HandshakeComplete(c) ==
    /\ hs[c] = "wait" /\ conn[c].ready
    /\ IF Len(queue) < MaxAcceptQueueSize
       THEN /\ queue' = Append(queue, c)
            /\ hs' = [hs EXCEPT ![c] = "done"]
            /\ UNCHANGED conn
       ELSE /\ conn' = Request(conn, c, "close")
            /\ hs' = [hs EXCEPT ![c] = "closing"]
            /\ UNCHANGED queue
    /\ UNCHANGED hsVars

(* closeWithTransportError returns once the context is done. *)
HandshakeClosed(c) ==
    /\ hs[c] = "closing" /\ Done(c)
    /\ hs' = [hs EXCEPT ![c] = "done"]
    /\ UNCHANGED <<hsVars, queue, conn>>

-----------------------------------------------------------------------------
(* Accept *)

accVars == <<sc, tr, handlers, reader, srv, zero, conn, hs, closer, dial, received>>

accept ==
    /\ acc.pc = "idle"
    /\ \/ /\ queue # <<>>
          /\ acc' = [acc EXCEPT !.conns = @ \union {Head(queue)}]
          /\ queue' = Tail(queue)
       \/ /\ srv.stopAccepting /\ queue = <<>>
          /\ acc' = [acc EXCEPT !.pc = "closed"]
          /\ UNCHANGED queue
    /\ UNCHANGED accVars

-----------------------------------------------------------------------------
(* Dial *)

dialVars == <<sc, tr, reader, srv, zero, queue, hs, acc, received>>

(* doDial, first and again when the server wants another version. *)
doDial ==
    /\ sc.dial
    /\ \/ dial.pc = "idle"
       \/ dial.pc = "select" /\ Done(dial.conn) /\ conn[dial.conn].req = "recreate"
    /\ \E c \in ClientConns :
          /\ conn[c].st = None
          /\ IF tr.closeErr # None
             THEN /\ dial' = [dial EXCEPT !.pc = "failed"]
                  /\ UNCHANGED <<handlers, conn>>
             ELSE /\ handlers' = [handlers EXCEPT ![c] = Handler(c)]
                  /\ conn' = [conn EXCEPT ![c].st = "run"]
                  /\ dial' = [pc |-> "select", conn |-> c]
    /\ UNCHANGED <<dialVars, closer>>

(* The context is done: the connection is destroyed and waited for. *)
DialCanceled ==
    /\ dial.pc = "select"
    /\ conn' = Request(conn, dial.conn, "destroy")
    /\ dial' = [dial EXCEPT !.pc = "destroying"]
    /\ UNCHANGED <<dialVars, handlers, closer>>

(* The connection ended: for a single-use transport, its goroutine closes  *)
(* the transport before Dial sees the error.                               *)
DialConnEnded ==
    /\ dial.pc \in {"select", "destroying", "connected"}
    /\ Done(dial.conn)

DialerCloses ==
    /\ DialConnEnded /\ conn[dial.conn].req # "recreate"
    /\ sc.singleUse /\ closer["dialer"] = "idle"
    /\ closer' = [closer EXCEPT !["dialer"] = "close"]
    /\ UNCHANGED <<dialVars, dial, handlers, conn>>

DialFails ==
    /\ DialConnEnded
    /\ dial.pc = "select" => conn[dial.conn].req # "recreate"
    /\ sc.singleUse /\ conn[dial.conn].req # "recreate" => closer["dialer"] = "returned"
    /\ dial' = [dial EXCEPT !.pc = "failed"]
    /\ UNCHANGED <<dialVars, handlers, conn, closer>>

DialReturns ==
    /\ dial.pc = "select" /\ conn[dial.conn].ready
    /\ dial' = [dial EXCEPT !.pc = "connected"]
    /\ UNCHANGED <<dialVars, handlers, conn, closer>>

-----------------------------------------------------------------------------
(* Closing. The goroutine in baseServer.close that comes first holds       *)
(* closeMx until the server's loop has returned.                           *)

closeVars == <<sc, zero, hs, acc, dial, received>>

CloseCalled(x) ==
    /\ x \in sc.closers \ {"reader"} /\ closer[x] = "idle"
    /\ closer' = [closer EXCEPT ![x] = IF x = "listener" THEN "server" ELSE "close"]
    /\ UNCHANGED <<closeVars, tr, handlers, reader, srv, queue, conn>>

(* Transport.close, first part *)
TransportClose(x) ==
    /\ closer[x] = "close"
    /\ IF tr.closeErr # None
       THEN closer' = [closer EXCEPT ![x] = "stop"] /\ UNCHANGED tr
       ELSE /\ tr' = [tr EXCEPT !.closeErr = "closed", !.server = FALSE]
            /\ closer' = [closer EXCEPT ![x] = IF tr.server THEN "server" ELSE "destroy"]
    /\ UNCHANGED <<closeVars, handlers, reader, srv, queue, conn>>

After(x) == IF x = "listener" THEN "returned" ELSE "destroy"

(* baseServer.close *)
ServerClose(x) ==
    /\ closer[x] = "server"
    /\ \A y \in Closers : closer[y] # "run"
    /\ IF srv.closeErr # None
       THEN closer' = [closer EXCEPT ![x] = After(x)] /\ UNCHANGED srv
       ELSE /\ srv' = [srv EXCEPT !.closeErr = x, !.errorChan = TRUE]
            /\ closer' = [closer EXCEPT ![x] = "run"]
    /\ UNCHANGED <<closeVars, tr, handlers, reader, queue, conn>>

ServerStopped(x) ==
    /\ closer[x] = "run" /\ ~srv.running
    /\ closer' = [closer EXCEPT ![x] = IF x = "listener" THEN "onClose" ELSE "wait"]
    /\ UNCHANGED <<closeVars, tr, handlers, reader, srv, queue, conn>>

closeServer(x) ==
    /\ closer[x] = "onClose"
    /\ LET t == [tr EXCEPT !.server = FALSE,
                           !.closeErr = IF sc.singleUse THEN "server" ELSE @]
       IN tr' = IF IsEmpty(handlers) THEN maybeStopListening(t) ELSE t
    /\ closer' = [closer EXCEPT ![x] = "wait"]
    /\ UNCHANGED <<closeVars, handlers, reader, srv, queue, conn>>

(* handshakingCount.Wait, then the queue is drained if the transport goes. *)
HandshakesDone(x) ==
    /\ closer[x] = "wait"
    /\ \A c \in ServerConns : hs[c] \in {None, "done"}
    /\ srv' = [srv EXCEPT !.stopAccepting = TRUE]
    /\ queue' = IF x = "listener" THEN queue ELSE <<>>
    /\ closer' = [closer EXCEPT ![x] = After(x)]
    /\ UNCHANGED <<closeVars, tr, handlers, reader, conn>>

(* The connections in the map are destroyed, and waited for. *)
DestroyConns(x) ==
    /\ closer[x] = "destroy"
    /\ conn' = RequestAll(conn, Served(handlers), "destroy")
    /\ tr' = [tr EXCEPT !.doomed = Served(handlers)]
    /\ closer' = [closer EXCEPT ![x] = "destroying"]
    /\ UNCHANGED <<closeVars, handlers, reader, srv, queue>>

ConnsDestroyed(x) ==
    /\ closer[x] = "destroying"
    /\ \A c \in tr.doomed : Done(c)
    /\ closer' = [closer EXCEPT ![x] = "stop"]
    /\ UNCHANGED <<closeVars, tr, handlers, reader, srv, queue, conn>>

(* Close waits until listen has returned; the reader returns itself. *)
StopListening(x) ==
    /\ closer[x] = "stop"
    /\ IF x = "reader"
       THEN /\ reader' = [reader EXCEPT !.pc = "stopped"]
            /\ UNCHANGED tr
       ELSE /\ tr' = [tr EXCEPT !.deadline = TRUE]
            /\ UNCHANGED reader
    /\ closer' = [closer EXCEPT ![x] = "listening"]
    /\ UNCHANGED <<closeVars, handlers, srv, queue, conn>>

CloseReturned(x) ==
    /\ closer[x] = "listening" /\ reader.pc = "stopped"
    /\ closer' = [closer EXCEPT ![x] = "returned"]
    /\ UNCHANGED <<closeVars, tr, handlers, reader, srv, queue, conn>>

(* What the goroutines do of their own accord. *)
Progress ==
    \/ \E c \in Conns, how \in {"close", "destroy"} : conn[c].req = how /\ Ends(c, how)
    \/ handlePacket \/ ReaderStops
    \/ ServerGoesOn \/ ServerExits \/ handlePacketImpl \/ AddWithConnID
    \/ \E c \in ServerConns : \/ HandshakeRefused(c) \/ HandshakeFailed(c)
                              \/ HandshakeComplete(c) \/ HandshakeClosed(c)
    \/ DialerCloses \/ DialFails
    \/ \E x \in Closers : \/ TransportClose(x) \/ ServerClose(x) \/ ServerStopped(x)
                          \/ closeServer(x) \/ HandshakesDone(x) \/ DestroyConns(x)
                          \/ ConnsDestroyed(x) \/ StopListening(x) \/ CloseReturned(x)

(* What the network and the application do. *)
Outside ==
    \/ \E c \in Conns : \/ \E how \in sc.ends \ {"start", "reset"} : conn[c].req = None /\ Ends(c, how)
                        \/ Ready(c) \/ StartFails(c) \/ Expire(c) \/ maybeHandleStatelessReset(c)
    \/ \E p \in sc.packets : ReadPacket(p)
    \/ ReadError \/ sendRetry
    \/ \E d \in DCIDs : IDTaken(d)
    \/ accept \/ doDial \/ DialCanceled \/ DialReturns
    \/ \E x \in {"listener", "transport"} : CloseCalled(x)

Next == Progress \/ Outside

Spec == Init /\ [][Next]_vars

(* Go runs every goroutine that can go on. The application's and the       *)
(* network's steps are not fair.                                           *)
FairSpec == Spec /\ WF_vars(Progress)

-----------------------------------------------------------------------------
(* The state has its types, and the queues their limits. *)
TypeOK ==
    /\ \A i \in IDs : handlers[i] \in [kind : {None, "conn", "closed"}, conn : {None} \union Conns]
    /\ Len(queue) <= MaxAcceptQueueSize
    /\ \A d \in DCIDs : zero[d] <= Max0RTTQueueLen
    /\ Cardinality({d \in DCIDs : zero[d] > 0}) <= Max0RTTQueues
    /\ srv.retries <= MaxRetries

(* "Calls to Accept will first drain the queue of connections that have    *)
(* completed the handshake, and then return ErrServerClosed": once Accept  *)
(* has said so, no connection is left for it or will come.                 *)
AcceptedBeforeClosed ==
    acc.pc = "closed" =>
        queue = <<>> /\ \A c \in ServerConns : hs[c] \in {None, "done"}

(* A connection the server made is in somebody's hands: waited for in      *)
(* handleNewConn, in the accept queue, accepted, or told to close.         *)
ConnectionsOwned ==
    \A c \in ServerConns : conn[c].st = "run" =>
        \/ hs[c] \in {"wait", "closing"}
        \/ c \in Range(queue) \union acc.conns
        \/ conn[c].req # None
        \/ \E x \in Closers \ {"listener"} : closer[x] = "destroy"

(* Transport.Close "terminates all existing connections": when it returns  *)
(* none is running, and none will be added.                                *)
ClosedTransportHasNoConns ==
    closer["transport"] = "returned" =>
        /\ \A c \in Conns : conn[c].st # "run"
        /\ \A i \in IDs : ~Live(handlers[i])

(* A connection whose loop has ended is not in the handler map: packets    *)
(* are not delivered to it, and it can be freed. (One whose handshake did  *)
(* not start stays: run returns before handleCloseError.)                  *)
NoDeadHandler ==
    \A i \in IDs : Live(handlers[i]) =>
        conn[handlers[i].conn].st # "ended"

(* 0-RTT packets do not stay behind: once the connection for their ID is   *)
(* in the map, none is queued at the server.                               *)
ZeroRTTDelivered ==
    \A d \in DCIDs : Live(handlers[d]) => zero[d] = 0

(* A transport made for one listener stops reading when the listener is    *)
(* closed and the last stand-in has expired.                               *)
SocketReleased ==
    tr.closeErr = "server" /\ IsEmpty(handlers) /\ reader.pc = "read" => tr.deadline

(* Every call of Close returns: the locks, the handshakes and the loops it *)
(* waits for never wait for it.                                            *)
NobodyCloses == \A x \in Closers : closer[x] \in {"idle", "returned"}

=============================================================================
