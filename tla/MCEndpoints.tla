----------------------------- MODULE MCEndpoints ----------------------------
(***************************************************************************)
(* Clients and servers and the goroutines that serve their callers: the    *)
(* TLCP connection, the hybrid listener, the TLCP transport of the HTTPS   *)
(* client, the QUIC server and its transport, the start of a QUIC          *)
(* connection, the loop that sends its packets, and its datagram queue.  A *)
(* behaviour is one of one part; the others keep their first state.        *)
(***************************************************************************)
EXTENDS Integers, Sequences, FiniteSets

CONSTANTS Parts,
          TLCPConfigs, TLCPConns, SeqValues,
          HybridScenarios, HybridConns, DialScenarios, Dials,
          ServerScenarios, DCIDs, ServerConns, ClientConns, MaxAcceptQueueSize, Max0RTTQueues, Max0RTTQueueLen,
          MaxServerUnprocessedPackets, MaxServerRetries,
          StartScenarios, MaxSends, MaxRetries,
          SendingScenarios, sendQueueCapacity, maxPacketsToProcess, MaxConnUnprocessedPackets,
          DatagramScenarios, Senders, Receivers, maxDatagramSendQueueLen, maxDatagramRcvQueueLen

VARIABLES part, cfg, ep, wire, cache, heap, wrote, got,
          hsc, listener, hconn, client, hsrv,
          dsc, ctx, dialer, socket, limit, ch, caller, reaper, crashed,
          qsc, tr, handlers, reader, srv, zero, queue, conn, hs, closer, acc, dial, received,
          ssc, cl, net, servers, retries, expired, epoch,
          nsc, q, npc, should, werr, lpc, loop, app, chans, rcv, panic,
          gsc, spc, rpc, sendQueue, rcvQueue, sent, rcvd, closed, scheduled, arrived

TLCP == INSTANCE TLCPConn WITH Configs <- TLCPConfigs, Conns <- TLCPConns
Hybrid == INSTANCE HybridListener WITH Scenarios <- HybridScenarios, Conns <- HybridConns, sc <- hsc, conn <- hconn, srv <- hsrv
Dialling == INSTANCE TLCPTransport WITH Scenarios <- DialScenarios, sc <- dsc
Server == INSTANCE QUICServer WITH Scenarios <- ServerScenarios, MaxRetries <- MaxServerRetries, sc <- qsc
Starting == INSTANCE ConnectionStart WITH Scenarios <- StartScenarios, sc <- ssc
Sending == INSTANCE ConnSending WITH Scenarios <- SendingScenarios, sc <- nsc, rpc <- npc
Datagrams == INSTANCE DatagramQueue WITH Scenarios <- DatagramScenarios, sc <- gsc

tlcpVars == <<cfg, ep, wire, cache, heap, wrote, got>>
hybridVars == <<hsc, listener, hconn, client, hsrv>>
dialVars == <<dsc, ctx, dialer, socket, limit, ch, caller, reaper, crashed>>
serverVars == <<qsc, tr, handlers, reader, srv, zero, queue, conn, hs, closer, acc, dial, received>>
startVars == <<ssc, cl, net, servers, retries, expired, epoch>>
sendingVars == <<nsc, q, npc, should, werr, lpc, loop, app, chans, rcv, panic>>
datagramVars == <<gsc, spc, rpc, sendQueue, rcvQueue, sent, rcvd, closed, scheduled, arrived>>
all == <<part, tlcpVars, hybridVars, dialVars, serverVars, startVars, sendingVars, datagramVars>>

One(S) == CHOOSE e \in S : TRUE
Init ==
  /\ part \in Parts
  /\ part = "tlcp" \/ cfg = One(TLCPConfigs)
  /\ part = "hybrid" \/ hsc = One(HybridScenarios)
  /\ part = "dial" \/ dsc = One(DialScenarios)
  /\ part = "server" \/ qsc = One(ServerScenarios)
  /\ part = "start" \/ ssc = One(StartScenarios)
  /\ part = "sending" \/ nsc = One(SendingScenarios)
  /\ part = "datagrams" \/ gsc = One(DatagramScenarios)
  /\ TLCP!Init /\ Hybrid!Init /\ Dialling!Init /\ Server!Init /\ Starting!Init /\ Sending!Init /\ Datagrams!Init

ButTLCP == <<part, hybridVars, dialVars, serverVars, startVars, sendingVars, datagramVars>>
ButHybrid == <<part, tlcpVars, dialVars, serverVars, startVars, sendingVars, datagramVars>>
ButDialling == <<part, tlcpVars, hybridVars, serverVars, startVars, sendingVars, datagramVars>>
ButServer == <<part, tlcpVars, hybridVars, dialVars, startVars, sendingVars, datagramVars>>
ButStarting == <<part, tlcpVars, hybridVars, dialVars, serverVars, sendingVars, datagramVars>>
ButSending == <<part, tlcpVars, hybridVars, dialVars, serverVars, startVars, datagramVars>>
ButDatagrams == <<part, tlcpVars, hybridVars, dialVars, serverVars, startVars, sendingVars>>
Next ==
  \/ part = "tlcp" /\ TLCP!Next /\ UNCHANGED ButTLCP
  \/ part = "hybrid" /\ Hybrid!Next /\ UNCHANGED ButHybrid
  \/ part = "dial" /\ Dialling!Next /\ UNCHANGED ButDialling
  \/ part = "server" /\ Server!Next /\ UNCHANGED ButServer
  \/ part = "start" /\ Starting!Next /\ UNCHANGED ButStarting
  \/ part = "sending" /\ Sending!Next /\ UNCHANGED ButSending
  \/ part = "datagrams" /\ Datagrams!Next /\ UNCHANGED ButDatagrams
Spec == Init /\ [][Next]_all

(* The fairness of each part, see there.                                   *)
Progress ==
  \/ part = "tlcp" /\ TLCP!Handshakes /\ UNCHANGED ButTLCP
  \/ part = "hybrid" /\ Hybrid!Progress /\ UNCHANGED ButHybrid
  \/ part = "dial" /\ Dialling!Fair /\ UNCHANGED ButDialling
  \/ part = "server" /\ Server!Progress /\ UNCHANGED ButServer
  \/ part = "start" /\ Starting!Progress /\ UNCHANGED ButStarting
  \/ part = "sending" /\ Sending!Run /\ UNCHANGED ButSending
  \/ part = "datagrams" /\ Datagrams!Sending /\ UNCHANGED ButDatagrams
Others ==
  \/ part = "sending" /\ Sending!Loop /\ UNCHANGED ButSending
  \/ part = "datagrams" /\ Datagrams!Receiving /\ UNCHANGED ButDatagrams
TimerFires == part = "sending" /\ Sending!WaitTimer /\ UNCHANGED ButSending
Scheduled == part = "sending" /\ Sending!scheduleSending /\ UNCHANGED ButSending
FairSpec == Spec /\ WF_all(Progress) /\ WF_all(Others) /\ WF_all(TimerFires) /\ WF_all(Scheduled)

(* The properties of the parts, explained there: TLCP connections, HTTPS   *)
(* on both protocols, the QUIC server, the dial, the connection loop with  *)
(* the send queue, and datagrams.                                          *)
ConnectionsSound == part = "tlcp" => TLCP!ConnectionsSound
ImplementsStream == TLCP!ImplementsStream
NegotiationSound ==
  /\ part = "hybrid" => Hybrid!NegotiationSound
  /\ part = "dial" => Dialling!TypeOK
ReaperSafe == part = "dial" => Dialling!ReaperSafe
StartSound == part = "start" => Starting!StartSound


-----------------------------------------------------------------------------
(* TLCP: all that is negotiated, the life of a connection, resumption.     *)
TLCPBase == [to |-> <<"a">>, clientSuites |-> <<"ECC">>, serverSuites |-> <<"ECC">>, clientCap |-> 2,
             serverCap |-> 2, clientCert |-> FALSE, auth |-> "NoClientCert", serverTrusted |-> TRUE,
             insecure |-> FALSE, clientTrusted |-> TRUE, aead |-> FALSE, data |-> 0, closers |-> {}, aging |-> FALSE, parallel |-> FALSE]
Auths == {"NoClientCert", "RequestClientCert", "RequireAnyClientCert", "VerifyClientCertIfGiven", "RequireAndVerifyClientCert"}
Negotiations ==
  {[TLCPBase EXCEPT !.clientSuites = cs, !.serverSuites = ss, !.clientCert = cc, !.auth = a, !.serverTrusted = st, !.clientTrusted = ct] :
     cs \in {<<"ECC">>, <<"ECDHE">>}, ss \in {<<"ECC", "ECDHE">>, <<"ECDHE">>}, cc \in BOOLEAN, a \in Auths, st \in BOOLEAN, ct \in BOOLEAN}
Lifecycles ==
  {[TLCPBase EXCEPT !.data = 3], [TLCPBase EXCEPT !.data = 1, !.closers = {"client"}],
   [TLCPBase EXCEPT !.data = 1, !.closers = {"server"}, !.aead = TRUE]}
Resumptions ==
  {[TLCPBase EXCEPT !.to = <<"a", "b", "a">>, !.clientCap = cc, !.serverCap = 1] : cc \in 1 .. 4}
  \cup {[TLCPBase EXCEPT !.to = <<"a", "a">>, !.serverCap = cap, !.aging = TRUE] : cap \in {0, 1}}
  \cup {[TLCPBase EXCEPT !.to = <<"a", "a">>, !.clientCap = 3, !.parallel = TRUE]}
MCTLCPConfigs == Negotiations \cup Lifecycles \cup Resumptions

(* The listener: three clients of different kinds.                         *)
Speaks(p, n) == [sends |-> p, steps |-> n, fails |-> FALSE, closes |-> FALSE]
Stalls == Speaks("silent", 0)
Clients(a, b, c) == [c1 |-> a, c2 |-> b, c3 |-> c]
Both == [mode |-> "hybrid", readTimeout |-> TRUE, noTimeout |-> FALSE, masks |-> {}, close |-> TRUE,
         clients |-> Clients(Speaks("tlcp", 2), Speaks("tls", 2), Stalls)]
MCHybridScenarios ==
  {Both,
   [Both EXCEPT !.masks = {{"tls"}}],
   [Both EXCEPT !.clients = Clients(Speaks("tlcp", 0), Speaks("plain", 0), [Speaks("tls", 1) EXCEPT !.fails = TRUE, !.closes = TRUE])],
   [Both EXCEPT !.masks = {{"tlcp"}}, !.close = FALSE, !.clients = Clients(Speaks("other", 0), Speaks("tls", 2), Speaks("tls", 0))],
   [Both EXCEPT !.readTimeout = FALSE, !.close = FALSE, !.clients = Clients(Stalls, Speaks("tls", 0), Speaks("tlcp", 2))],
   [Both EXCEPT !.noTimeout = TRUE, !.clients = Clients(Speaks("tlcp", 1), Speaks("tls", 1), Speaks("plain", 0))],
   [Both EXCEPT !.mode = "tlcp", !.clients = Clients(Speaks("tlcp", 2), Stalls, Speaks("tlcp", 1))]}

(* Two dials at once, to servers that serve, fail, stall or are not there. *)
To(a, b) == [d1 |-> a, d2 |-> b]
Serving == [server |-> To("serves", "serves"), cancels |-> TRUE, deadline |-> FALSE]
MCDialScenarios ==
  {Serving, [Serving EXCEPT !.server = To("serves", "stalls")], [Serving EXCEPT !.server = To("fails", "unreachable")],
   [Serving EXCEPT !.server = To("stalls", "serves"), !.deadline = TRUE], [Serving EXCEPT !.cancels = FALSE, !.deadline = TRUE]}

(* The QUIC server: accepting with 0-RTT, Retry and refusals as the        *)
(* listener closes; a listener with a transport of its own; listener and   *)
(* transport closed at once, or reading fails; dialling from a transport   *)
(* that is closed, or from one of its own; a connection ID that is taken.  *)
QPacket(type, id, token) == [type |-> type, id |-> id, token |-> token]
None == "none"
Basic == [listen |-> TRUE, singleUse |-> FALSE, early |-> FALSE, retry |-> FALSE, refuse |-> FALSE, collide |-> FALSE,
          dial |-> FALSE, packets |-> {}, maxPackets |-> 3, ends |-> {}, closers |-> {}]
Initials == {QPacket("initial", d, None) : d \in DCIDs}
Accepting ==
  [Basic EXCEPT !.early = TRUE, !.retry = TRUE, !.refuse = TRUE, !.closers = {"listener"}, !.ends = {"start"},
                !.packets = {QPacket("0rtt", d, None) : d \in DCIDs}
                            \cup {QPacket("initial", "d1", t) : t \in {None, "valid", "badRetry"}} \cup {QPacket("other", "s1", None)}]
OwnListener ==
  [Basic EXCEPT !.singleUse = TRUE, !.closers = {"listener"}, !.ends = {"close", "remote"}, !.packets = {QPacket("initial", "d1", None)}, !.maxPackets = 2]
SharedClosed ==
  [Basic EXCEPT !.closers = {"listener", "transport"}, !.ends = {"remote"}, !.packets = Initials, !.maxPackets = 1]
ReadFails == [SharedClosed EXCEPT !.closers = {"transport", "reader"}]
FromShared ==
  [Basic EXCEPT !.dial = TRUE, !.closers = {"transport"}, !.ends = {"recreate", "reset"},
                !.packets = {QPacket("initial", "d1", None)}, !.maxPackets = 1]
FromIdle == [FromShared EXCEPT !.ends = {"remote", "timeout"}, !.packets = {}]
OwnDial ==
  [Basic EXCEPT !.dial = TRUE, !.listen = FALSE, !.singleUse = TRUE, !.ends = {"remote", "recreate", "timeout", "close"}]
Colliding == [FromShared EXCEPT !.collide = TRUE, !.ends = {}, !.closers = {}]
MCServerScenarios == {Accepting, OwnListener, SharedClosed, ReadFails, FromShared, FromIdle, OwnDial, Colliding}

(* The start of a connection: versions, Retry, tokens, and what goes wrong *)
(* with them.                                                              *)
Plain == [ours |-> <<"v1", "v2">>, theirs |-> {"v1", "v2"}, answers |-> {"accept", "retry"},
          tokens |-> 0, staleTokens |-> FALSE, refuses |-> FALSE, faults |-> {}]
MCStartScenarios ==
  {Plain,
   [Plain EXCEPT !.answers = {"retry"}, !.faults = {"expire"}],
   [Plain EXCEPT !.theirs = {"v2"}, !.tokens = 1],
   [Plain EXCEPT !.ours = <<"v2">>, !.theirs = {"v1"}],
   [Plain EXCEPT !.ours = <<"v3", "v2", "v1">>, !.tokens = 2, !.staleTokens = TRUE, !.answers = {"retry"}],
   [Plain EXCEPT !.refuses = TRUE],
   [Plain EXCEPT !.faults = {"restart"}]}

(* The send queue and the run loop, with pacing, packets that arrive, a    *)
(* migration, a socket that fails, and an end.                             *)
Quiet == [writes |-> 3, arrivals |-> 0, migrate |-> FALSE, fail |-> FALSE, close |-> FALSE, pace |-> FALSE]
MCSendingScenarios ==
  {[Quiet EXCEPT !.pace = TRUE, !.arrivals = 1], [Quiet EXCEPT !.writes = 1, !.arrivals = 4],
   [Quiet EXCEPT !.migrate = TRUE, !.fail = TRUE], [Quiet EXCEPT !.close = TRUE, !.migrate = TRUE]}

(* Datagrams: four senders at a queue of two, one or two receivers.        *)
Idle == [senders |-> {}, receivers |-> {}, arrivals |-> 0, closes |-> FALSE]
MCDatagramScenarios ==
  {[Idle EXCEPT !.senders = Senders], [Idle EXCEPT !.senders = Senders, !.closes = TRUE],
   [Idle EXCEPT !.receivers = {"r1"}, !.arrivals = 4, !.closes = TRUE], [Idle EXCEPT !.receivers = Receivers, !.arrivals = 4]}
=============================================================================
