--------------------------- MODULE ConnectionStart ---------------------------
(* The first round trips of a QUIC connection, as quic-go runs them: a client
   dials (transport.go, connection.go), a server answers with Version
   Negotiation, with a Retry, with an error or with a connection (server.go),
   and the client accepts the server's transport parameters only if they name
   the connection IDs it saw. The network loses, repeats and reorders; the
   server may be restarted with new token keys, and Retry tokens expire.

   A packet that was sent stays in net: delivering it again is a duplicate,
   never delivering it is a loss. The Initial keys are the connection ID they
   are derived from; the Handshake keys are the server connection's ID.      *)
EXTENDS Integers, Sequences, FiniteSets, SequencesExt

CONSTANTS
  MaxSends,     \* Initials a client sends before it learns something new
  MaxRetries,   \* Retry packets the server sends
  Scenarios

VARIABLES sc, cl, net, servers, retries, expired, epoch
vars == <<sc, cl, net, servers, retries, expired, epoch>>

NoID == <<"none", 0>>
NoToken == [kind |-> "none", orig |-> NoID, src |-> NoID, n |-> 0, epoch |-> 0]

-----------------------------------------------------------------------------
(* The client connection.                                                    *)

\* The destination connection ID is fresh, a token comes from the TokenStore.
newClientConnection(k, version, hasNegotiatedVersion, pn) ==
  [k |-> k, version |-> version, versionNegotiated |-> hasNegotiatedVersion,
   receivedFirstPacket |-> FALSE, receivedRetry |-> FALSE,
   origDest |-> <<"d", k>>, handshakeDest |-> <<"d", k>>, retrySrc |-> NoID,
   key |-> <<"d", k>>, hs |-> NoID, pn |-> pn, sent |-> 0, pc |-> "run",
   token |-> IF k <= sc.tokens THEN [NoToken EXCEPT !.kind = "new", !.n = k] ELSE NoToken]

ClientID == <<"c", cl.k>>
ForClient(m) == cl.pc = "run" /\ m.to = ClientID

\* A mutant: the new connection starts to count again.
RecreatedFromZero(version) == newClientConnection(cl.k + 1, version, TRUE, 0)

\* doDial after errCloseForRecreating.
Recreated(version) == newClientConnection(cl.k + 1, version, TRUE, cl.pn)

\* An Initial: retransmitted until something is learnt.
SendInitial ==
  /\ cl.pc = "run" /\ cl.sent < MaxSends
  /\ net' = net \union {[type |-> "Initial", version |-> cl.version, dcid |-> cl.handshakeDest,
                         scid |-> ClientID, token |-> cl.token, pn |-> cl.pn, key |-> cl.key]}
  /\ cl' = [cl EXCEPT !.pn = @ + 1, !.sent = @ + 1]
  /\ UNCHANGED <<sc, servers, retries, expired, epoch>>

ChooseSupportedVersion(ours, theirs) ==
  LET common == SelectSeq(ours, LAMBDA v : v \in theirs)
  IN  IF common = <<>> THEN "none" ELSE Head(common)

Matched(ours, theirs) == ChooseSupportedVersion(ours, theirs)

handleVersionNegotiationPacket(m) ==
  /\ m.type = "VersionNegotiation" /\ ForClient(m)
  /\ ~cl.receivedFirstPacket /\ ~cl.versionNegotiated
  /\ cl.version \notin m.versions
  /\ cl' = IF Matched(sc.ours, m.versions) = "none" THEN [cl EXCEPT !.pc = "no version"]
           ELSE Recreated(Matched(sc.ours, m.versions))
  /\ UNCHANGED <<sc, net, servers, retries, expired, epoch>>

\* The tag covers the connection ID the client sent its Initial to.
GetRetryIntegrityTag(destConnID, version) == <<destConnID, version>>

RetryWanted(m) ==
  /\ ~cl.receivedFirstPacket
  /\ m.src # cl.handshakeDest
  /\ ~cl.receivedRetry
  /\ m.tag = GetRetryIntegrityTag(cl.handshakeDest, cl.version)

Retried(m) ==
  [cl EXCEPT !.receivedRetry = TRUE, !.handshakeDest = m.src, !.retrySrc = m.src,
             !.key = m.src, !.token = m.token, !.sent = 0]

handleRetryPacket(m) ==
  /\ m.type = "Retry" /\ ForClient(m)
  /\ RetryWanted(m)
  /\ cl' = Retried(m)
  /\ UNCHANGED <<sc, net, servers, retries, expired, epoch>>

\* An Initial of the server: the first one settles the destination connection
\* ID, later ones from elsewhere are dropped.
handleServerInitial(m) ==
  /\ m.type = "ServerInitial" /\ ForClient(m)
  /\ m.version = cl.version
  /\ cl.receivedFirstPacket => m.src = cl.handshakeDest
  /\ m.key = cl.key
  /\ cl.hs = NoID
  /\ cl' = [cl EXCEPT !.receivedFirstPacket = TRUE, !.handshakeDest = m.src, !.sent = 0,
                      !.hs = IF m.close = "" THEN m.src ELSE NoID,
                      !.pc = IF m.close = "" THEN "run" ELSE m.close]
  /\ UNCHANGED <<sc, net, servers, retries, expired, epoch>>

checkTransportParameters(p) ==
  /\ p.initialSrc = cl.handshakeDest
  /\ p.orig = cl.origDest
  /\ p.retrySrc = cl.retrySrc

\* The server's Handshake packet carries its transport parameters.
handleTransportParameters(m) ==
  /\ m.type = "ServerHandshake" /\ ForClient(m)
  /\ cl.hs = m.src
  /\ cl' = [cl EXCEPT !.pc = IF checkTransportParameters(m.params) THEN "complete"
                             ELSE "parameters refused"]
  /\ UNCHANGED <<sc, net, servers, retries, expired, epoch>>

-----------------------------------------------------------------------------
(* The server. A connection is found by the connection ID the client chose and
   by its own; it is made with what the packet and its token say.            *)

Routed(dcid) == \E s \in servers : s.epoch = epoch /\ dcid \in {s.clientDest, s.src}
Arrived(m) == m.type = "Initial" /\ m.version \in sc.theirs /\ ~Routed(m.dcid)

\* DecodeToken: a token of the keys before a restart does not decode.
Decoded(t) == IF t.epoch = epoch THEN t ELSE NoToken
RetryTokenExpired(t) == t.kind = "retry" /\ t.n <= expired

\* validateToken, for the tokens that are ignored rather than refused.
Validated(t) == IF t.kind = "new" /\ sc.staleTokens THEN NoToken ELSE t

\* The greased version in the list is no version anybody has.
ComposeVersionNegotiation(destConnID, versions) ==
  [type |-> "VersionNegotiation", to |-> destConnID, versions |-> versions]

\* The answers that make no connection carry the client's connection IDs back.
maybeSendVersionNegotiationPacket(m) ==
  /\ m.type = "Initial" /\ m.version \notin sc.theirs
  /\ net' = net \union {ComposeVersionNegotiation(m.scid, sc.theirs)}
  /\ UNCHANGED <<sc, cl, servers, retries, expired, epoch>>

sendError(m, code) ==
  net' = net \union {[type |-> "ServerInitial", to |-> m.scid, version |-> m.version,
                      key |-> m.dcid, src |-> m.dcid, close |-> code]}

\* Only for a packet that decrypts.
maybeSendInvalidToken(m) ==
  /\ Arrived(m)
  /\ RetryTokenExpired(Decoded(m.token))
  /\ m.key = m.dcid
  /\ sendError(m, "invalid token")
  /\ UNCHANGED <<sc, cl, servers, retries, expired, epoch>>

Admitted(m) ==
  /\ Arrived(m)
  /\ ~RetryTokenExpired(Decoded(m.token))
  /\ "accept" \in sc.answers \/ Validated(Decoded(m.token)).kind # "none"

sendConnectionRefused(m) ==
  /\ Admitted(m) /\ sc.refuses
  /\ sendError(m, "refused")
  /\ UNCHANGED <<sc, cl, servers, retries, expired, epoch>>

NewRetryToken(orig, src) ==
  [kind |-> "retry", orig |-> orig, src |-> src, n |-> retries + 1, epoch |-> epoch]

sendRetryPacket(m) ==
  /\ Arrived(m) /\ "retry" \in sc.answers
  /\ Validated(Decoded(m.token)).kind = "none"
  /\ retries < MaxRetries
  /\ net' = net \union {[type |-> "Retry", to |-> m.scid, src |-> <<"r", retries + 1>>,
                         tag |-> GetRetryIntegrityTag(m.dcid, m.version),
                         token |-> NewRetryToken(m.dcid, <<"r", retries + 1>>)]}
  /\ retries' = retries + 1
  /\ UNCHANGED <<sc, cl, servers, expired, epoch>>

\* What newConnection is given: the connection IDs of the token, if it is one
\* of a Retry.
newConnection(m, t) ==
  [src |-> <<"s", Cardinality(servers) + 1>>, clientDest |-> m.dcid, dest |-> m.scid,
   version |-> m.version, epoch |-> epoch,
   orig |-> IF t.kind = "retry" THEN t.orig ELSE m.dcid,
   retrySrc |-> IF t.kind = "retry" THEN t.src ELSE NoID]

\* The flight of the new connection, if it could decrypt the Initial.
Flight(m, s) ==
  IF m.key # m.dcid THEN {}
  ELSE {[type |-> "ServerInitial", to |-> m.scid, version |-> m.version, key |-> m.dcid,
         src |-> s.src, close |-> ""],
        [type |-> "ServerHandshake", to |-> m.scid, src |-> s.src,
         params |-> [initialSrc |-> s.src, orig |-> s.orig, retrySrc |-> s.retrySrc]]}

Accept(m) ==
  /\ Admitted(m) /\ ~sc.refuses
  /\ LET s == newConnection(m, Decoded(m.token)) IN
       /\ servers' = servers \union {s}
       /\ net' = net \union Flight(m, s)
  /\ UNCHANGED <<sc, cl, retries, expired, epoch>>

-----------------------------------------------------------------------------
(* Faults.                                                                   *)

\* maxRetryTokenAge passes.
Expire ==
  /\ "expire" \in sc.faults /\ expired < retries
  /\ expired' = retries
  /\ UNCHANGED <<sc, cl, net, servers, retries, epoch>>

\* The server is restarted; without a TokenGeneratorKey it draws a new one.
Restart ==
  /\ "restart" \in sc.faults /\ epoch = 0
  /\ epoch' = 1
  /\ UNCHANGED <<sc, cl, net, servers, retries, expired>>

-----------------------------------------------------------------------------
Init ==
  /\ sc \in Scenarios
  /\ cl = newClientConnection(1, Head(sc.ours), FALSE, 0)
  /\ net = {} /\ servers = {}
  /\ retries = 0 /\ expired = 0 /\ epoch = 0

Handle(m) ==
  \/ handleVersionNegotiationPacket(m) \/ handleRetryPacket(m)
  \/ handleServerInitial(m) \/ handleTransportParameters(m)
  \/ maybeSendVersionNegotiationPacket(m) \/ maybeSendInvalidToken(m)
  \/ sendConnectionRefused(m) \/ sendRetryPacket(m) \/ Accept(m)

Progress == SendInitial \/ \E m \in net : Handle(m)

Next == Progress \/ Expire \/ Restart

Spec == Init /\ [][Next]_vars

\* The client retransmits, so a packet gets through in the end, and both sides
\* handle what arrives.
FairSpec == Spec /\ WF_vars(Progress)

-----------------------------------------------------------------------------
(* Properties.                                                               *)

\* Types; a client that followed a Retry holds its token.
TypeOK ==
  /\ cl.pc \in {"run", "complete", "no version", "parameters refused", "invalid token", "refused"}
  /\ cl.k \in 1..2 /\ cl.sent \in 0..MaxSends
  /\ cl.receivedRetry <=> cl.retrySrc # NoID
  /\ cl.receivedRetry => cl.token.kind = "retry"
  /\ retries \in 0..MaxRetries /\ expired \in 0..retries /\ epoch \in 0..1

\* A handshake completes only with a connection the server made for it: the same
\* version, and the same history of connection IDs on both sides.
SameHistory ==
  cl.pc = "complete" =>
    \E s \in servers :
      /\ s.src = cl.hs /\ s.dest = ClientID /\ s.version = cl.version
      /\ s.orig = cl.origDest /\ s.retrySrc = cl.retrySrc

\* Whatever the network does with Retries, Version Negotiation and the flights of
\* several connections, a client does not refuse the parameters of an honest
\* server, and it gives up only for a reason the server really has.
FailsForCause ==
  /\ cl.pc = "parameters refused" => epoch = 1
  /\ cl.pc = "invalid token" => expired > 0
  /\ cl.pc = "no version" => Range(sc.ours) \intersect sc.theirs = {}
  /\ cl.pc = "refused" => sc.refuses

\* The version in use is the client's favourite among those the server has, with
\* or without a round of Version Negotiation.
BestVersion ==
  cl.pc = "complete" => cl.version = ChooseSupportedVersion(sc.ours, sc.theirs)

\* No Initial packet number is used twice, not by a connection that was created
\* anew after Version Negotiation and not after a Retry.
PacketNumbersFresh ==
  \A m \in net, n \in net :
    m.type = "Initial" /\ n.type = "Initial" /\ m.pn = n.pn => m = n

\* Without faults the dial ends: with a connection, or because the server refuses
\* it or speaks no common version.
DialEnded == sc.faults = {} => cl.pc \in {"complete", "no version", "refused"}

\* A dial ends with the right connection, or for a reason
\* (handleRetryPacket, handleVersionNegotiationPacket,
\* checkTransportParameters).
StartSound ==
  /\ TypeOK
  /\ SameHistory
  /\ FailsForCause
  /\ BestVersion
  /\ PacketNumbersFresh
=============================================================================
