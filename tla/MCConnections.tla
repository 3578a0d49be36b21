---------------------------- MODULE MCConnections ----------------------------
(***************************************************************************)
(* What the ends of a connection agree on: connection IDs and their        *)
(* routes, paths and migration, the streams opened and accepted, transport *)
(* parameters and what a ticket remembers of them, address validation      *)
(* tokens, the timers, and the certificates and options of an HTTPS server *)
(* and its clients.  A behaviour is one of one part; the others keep their *)
(* first state.                                                            *)
(***************************************************************************)
EXTENDS Integers, Sequences, FiniteSets

CONSTANTS Parts,
          ProbePaths, Transports, Home, MaxActiveConnectionIDs, MaxIssuedConnectionIDs, IDScenarios,
          NewPaths, IDs, PathScenarios,
          Openers, Acceptors, StreamScenarios,
          MaxVarint, MaxStreamCount, DefaultWindow, DefaultStreams, MinRemoteIdleTimeout, ParamActiveConnectionIDs, MaxDatagramSize,
          Configs, MaxReconfigurations,
          Origins, capacity, singleOriginSize, MaxTokens,
          MaxIdleTimeout, HandshakeIdleTimeout, PTO, MaxDelay, MaxInFlight, TimerScenarios,
          Pairs, ServerChoices, ClientChoices, MaxLoads, MaxDials

VARIABLES part, isc, g, routes, u, tokens, news, got, retires, packets, err,
          psc, pout, toProbe, active, switch, using, probe, cheld, owed, pn, up, psrv, sn, down, latest, seen,
          sc, out, cur, reset, opener, in, chan, parked, acceptor, accepted, limits, blocked, failed,
          conf, gm, phase, peerParams, ticket, resumed, reconfigured,
          store, q, issued, last,
          tsc, ep, net, losses,
          opts, loads, srv, dialled

ConnIDs == INSTANCE ConnectionIDs WITH Paths <- ProbePaths, Scenarios <- IDScenarios, sc <- isc
Migration == INSTANCE Paths WITH Scenarios <- PathScenarios, sc <- psc, out <- pout, srv <- psrv
Maps == INSTANCE StreamsMap WITH Scenarios <- StreamScenarios
Params == INSTANCE TransportParameters WITH MaxActiveConnectionIDs <- ParamActiveConnectionIDs, accepted <- resumed
Tokens == INSTANCE TokenStore WITH m <- store
Timers == INSTANCE ConnTimers WITH Scenarios <- TimerScenarios, sc <- tsc
HTTPS == INSTANCE HTTPSConfig

idVars == <<isc, g, routes, u, tokens, news, got, retires, packets, err>>
pathVars == <<psc, pout, toProbe, active, switch, using, probe, cheld, owed, pn, up, psrv, sn, down, latest, seen>>
mapVars == <<sc, out, cur, reset, opener, in, chan, parked, acceptor, accepted, limits, blocked, failed>>
paramVars == <<conf, gm, phase, peerParams, ticket, resumed, reconfigured>>
tokenVars == <<store, q, issued, last>>
timerVars == <<tsc, ep, net, losses>>
httpsVars == <<opts, loads, srv, dialled>>
all == <<part, idVars, pathVars, mapVars, paramVars, tokenVars, timerVars, httpsVars>>

One(S) == CHOOSE x \in S : TRUE
Init ==
  /\ part \in Parts
  /\ part = "ids" \/ isc = One(IDScenarios)
  /\ part = "paths" \/ psc = One(PathScenarios)
  /\ part = "streams" \/ sc = One(StreamScenarios)
  /\ part = "params" \/ (conf = Params!populateConfig(Params!validateConfig(One(Configs))) /\ gm = FALSE)
  /\ part = "timers" \/ tsc = One(TimerScenarios)
  /\ part = "https" \/ opts = One(ServerChoices)
  /\ ConnIDs!Init /\ Migration!Init /\ Maps!Init /\ Params!Init /\ Tokens!Init /\ Timers!Init /\ HTTPS!Init

ButIDs == <<part, pathVars, mapVars, paramVars, tokenVars, timerVars, httpsVars>>
ButPaths == <<part, idVars, mapVars, paramVars, tokenVars, timerVars, httpsVars>>
ButStreams == <<part, idVars, pathVars, paramVars, tokenVars, timerVars, httpsVars>>
ButParams == <<part, idVars, pathVars, mapVars, tokenVars, timerVars, httpsVars>>
ButTokens == <<part, idVars, pathVars, mapVars, paramVars, timerVars, httpsVars>>
ButTimers == <<part, idVars, pathVars, mapVars, paramVars, tokenVars, httpsVars>>
ButHTTPS == <<part, idVars, pathVars, mapVars, paramVars, tokenVars, timerVars>>
Next ==
  \/ part = "ids" /\ ConnIDs!Next /\ UNCHANGED ButIDs
  \/ part = "paths" /\ Migration!Next /\ UNCHANGED ButPaths
  \/ part = "streams" /\ Maps!Next /\ UNCHANGED ButStreams
  \/ part = "params" /\ Params!Next /\ UNCHANGED ButParams
  \/ part = "tokens" /\ Tokens!Next /\ UNCHANGED ButTokens
  \/ part = "timers" /\ Timers!Next /\ UNCHANGED ButTimers
  \/ part = "https" /\ HTTPS!Next /\ UNCHANGED ButHTTPS
Spec == Init /\ [][Next]_all

ImplementsStacks == Tokens!ImplementsStacks


-----------------------------------------------------------------------------
(* Connection IDs: both directions of issue, and an issuer that retires    *)
(* IDs.                                                                    *)
Issuing(server, raising, maxSeq) == [server |-> server, raising |-> raising, copies |-> "some", maxSeq |-> maxSeq]
MCIDScenarios == {Issuing(TRUE, FALSE, 4), Issuing(FALSE, TRUE, 3)}

(* Paths: Probe calls on new paths, with and without closing paths.        *)
Moving(paths, maxPaths, closing, timer, n) ==
  [paths |-> paths, maxPaths |-> maxPaths, reprobe |-> FALSE, closing |-> closing, timer |-> timer, packets |-> n]
MCPathScenarios == {Moving({1, 2}, 2, FALSE, FALSE, 4), Moving({1, 2}, 1, TRUE, FALSE, 4), Moving({1}, 1, TRUE, TRUE, 3)}

(* Streams: one opener and many streams, two that compete, and a rejected  *)
(* 0-RTT attempt.                                                          *)
Opening(openers, acceptors, limit, final, mayReset) ==
  [opening |-> openers, accepting |-> acceptors, limit |-> limit, last |-> final, reset |-> mayReset]
MCStreamScenarios ==
  {Opening({One(Openers)}, {One(Acceptors)}, 2, 4, FALSE), Opening(Openers, {One(Acceptors)}, 1, 2, FALSE),
   Opening(Openers, {}, 1, 1, TRUE)}

(* Transport parameters: servers that differ in one or two settings.       *)
Base == [streamWindow |-> 2, connWindow |-> 0, bidi |-> 0, uni |-> -1, idle |-> 7,
         datagrams |-> FALSE, resetAt |-> FALSE, allow0RTT |-> TRUE]
MCConfigs ==
  {Base}
    \union {[Base EXCEPT !.streamWindow = n] : n \in {0, 1, 3}}
    \union {[Base EXCEPT !.connWindow = n] : n \in {1, 5}}
    \union {[Base EXCEPT !.bidi = b, !.uni = n] : b \in {-1, 1, 9}, n \in {0, 9}}
    \union {[Base EXCEPT !.datagrams = d, !.resetAt = r, !.idle = 3] : d \in BOOLEAN, r \in BOOLEAN}
    \union {[Base EXCEPT !.allow0RTT = FALSE]}

(* Timers: keep-alives, ends that die, a blocked or stuck handshake.       *)
Ends == {"client", "server"}
Each(c, s) == [e \in Ends |-> IF e = "client" THEN c ELSE s]
Quiet == [keepAlive |-> Each(0, 0), losses |-> 0, dies |-> Each(FALSE, FALSE), writes |-> Each(FALSE, FALSE), blocks |-> FALSE, stuck |-> FALSE]
MCTimerScenarios ==
  {[Quiet EXCEPT !.keepAlive = Each(3, 0), !.losses = 1], [Quiet EXCEPT !.keepAlive = Each(3, 9), !.writes = Each(FALSE, TRUE)],
   [Quiet EXCEPT !.dies = Each(FALSE, TRUE), !.writes = Each(TRUE, FALSE)],
   [Quiet EXCEPT !.keepAlive = Each(3, 0), !.dies = Each(TRUE, TRUE)],
   [Quiet EXCEPT !.dies = Each(TRUE, FALSE), !.blocks = TRUE, !.losses = 1],
   [Quiet EXCEPT !.stuck = TRUE, !.writes = Each(TRUE, FALSE)]}

(* Certificates as files, and the options of servers and clients.          *)
NoFile == [key |-> "none", issuer |-> "none", chain |-> <<>>, of |-> "none"]
Pair(key, issuer, blocks, c, k) == [key |-> key, issuer |-> issuer, blocks |-> blocks, certOf |-> c, keyOf |-> k]
WholePairs ==
  {Pair("sm2", "root", <<"leaf">>, "a", "a"), Pair("sm2", "inter", <<"leaf", "inter">>, "b", "b"), Pair("sm2", "root", <<"leaf">>, "a", "b"),
   Pair("sm2", "inter", <<"inter", "leaf">>, "b", "b"), Pair("p256", "inter", <<"key", "leaf", "inter">>, "c", "c")}
Served == [mode |-> "unset", sign |-> NoFile, enc |-> NoFile, certs |-> NoFile, suites |-> <<>>,
           auth |-> "none", tlsAuth |-> "none", clientCAs |-> FALSE, shortKey |-> FALSE]
MCServerChoices ==
  {[Served EXCEPT !.mode = m] : m \in {"unset", "tls", "tlcp", "hybrid", "tls13"}}
  \cup {[Served EXCEPT !.mode = m, !.suites = s] : m \in {"hybrid", "tls"}, s \in {<<"ecc", "ecdhe">>, <<"ecdhe">>}}
  \cup {[Served EXCEPT !.mode = "tls", !.suites = s] : s \in {<<"aead">>, <<"aead", "cbc">>, <<"aead", "ecc">>}}
  \cup {[Served EXCEPT !.mode = m, !.tlsAuth = "RequireAndVerify", !.clientCAs = c] : m \in {"tls", "tls13"}, c \in BOOLEAN}
  \cup {[Served EXCEPT !.mode = "tlcp", !.auth = "RequireAny"], [Served EXCEPT !.mode = "tls", !.shortKey = TRUE]}

Own == [key |-> "sm2", issuer |-> "root", chain |-> <<"leaf">>, of |-> "client"]
Asking == [mode |-> "tlcp", sign |-> NoFile, enc |-> NoFile, roots |-> FALSE, tlsRoots |-> FALSE, cert |-> FALSE,
           name |-> "", skip |-> FALSE, suites |-> <<>>, systemKnows |-> TRUE]
MCClientChoices ==
  {[Asking EXCEPT !.sign = Own, !.enc = Own, !.roots = TRUE], [Asking EXCEPT !.roots = TRUE, !.suites = <<"ecc">>], [Asking EXCEPT !.sign = Own],
   [Asking EXCEPT !.roots = TRUE, !.suites = <<"aead">>], [Asking EXCEPT !.skip = TRUE, !.suites = <<"ecc">>], Asking}
  \cup {[Asking EXCEPT !.mode = m, !.tlsRoots = r, !.cert = r, !.name = "host"] : m \in {"tls", "tls13"}, r \in BOOLEAN}
  \cup {[Asking EXCEPT !.mode = "tls", !.tlsRoots = TRUE, !.suites = <<"cbc">>], [Asking EXCEPT !.mode = "tls", !.skip = TRUE]}
=============================================================================
