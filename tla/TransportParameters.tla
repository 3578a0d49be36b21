------------------------- MODULE TransportParameters -------------------------
(* The transport parameters of quic-go: how a Config becomes parameters
   (config.go, connection.go), how they are written to the wire and into a
   session ticket (internal/wire/transport_parameters.go), and how a resumed
   connection uses the remembered ones: the client sends 0-RTT data under the
   limits it restored, the server accepts it only if its current limits allow
   it, the client checks the new limits against the restored ones.

   Two encodings of the remembered parameters exist: crypto/tls tickets hold
   MarshalForSessionTicket, the GM handshake stores the whole Marshal.       *)
EXTENDS Integers, FiniteSets, Functions

CONSTANTS
  MaxVarint,             \* quicvarint.Max, scaled down
  MaxStreamCount,        \* protocol.MaxStreamCount, scaled down
  DefaultWindow,         \* protocol.DefaultInitialMaxStreamData / MaxData
  DefaultStreams,        \* protocol.DefaultMaxIncomingStreams
  MinRemoteIdleTimeout,
  MaxActiveConnectionIDs,
  MaxDatagramSize,       \* wire.MaxDatagramSize
  Configs,               \* the Configs a server may be started with
  MaxReconfigurations

VARIABLES conf, gm, phase, peerParams, ticket, accepted, reconfigured
vars == <<conf, gm, phase, peerParams, ticket, accepted, reconfigured>>

DefaultActiveConnectionIDLimit == 2
InvalidByteCount == -1
Absent == [none |-> TRUE]

-----------------------------------------------------------------------------
(* From the Config to the parameters.                                        *)

Clip(n, max) == IF n > max THEN max ELSE n


\* The windows that are parameters (the initial ones) are not clipped.
validateConfig(c) ==
  [c EXCEPT !.bidi = Clip(@, MaxStreamCount), !.uni = Clip(@, MaxStreamCount)]

populateConfig(c) ==
  LET streams(n) == CASE n = 0 -> DefaultStreams [] n < 0 -> 0 [] OTHER -> n
      window(n)  == IF n = 0 THEN DefaultWindow ELSE n
  IN  [c EXCEPT !.bidi = streams(@), !.uni = streams(@),
                !.streamWindow = window(@), !.connWindow = window(@)]

\* The parameters newConnection announces for the server.
ourParams(c) ==
  [bidiLocal |-> c.streamWindow, bidiRemote |-> c.streamWindow,
   uni |-> c.streamWindow, data |-> c.connWindow,
   bidiNum |-> c.bidi, uniNum |-> c.uni, idle |-> c.idle,
   activeLimit |-> MaxActiveConnectionIDs,
   datagram |-> IF c.datagrams THEN MaxDatagramSize ELSE InvalidByteCount,
   resetAt |-> c.resetAt, origDest |-> TRUE, initialSrc |-> TRUE]

Limits == {"bidiLocal", "bidiRemote", "uni", "data", "bidiNum", "uniNum"}

-----------------------------------------------------------------------------
(* The encodings: a parameter is present or it is not. A value too large for a
   varint makes quicvarint.Append panic.                                     *)

Present(p, ids) == [id \in ids |-> p[id]]

Optional(p) ==
  (IF p.datagram # InvalidByteCount THEN {"datagram"} ELSE {})
    \union (IF p.resetAt THEN {"resetAt"} ELSE {})

Marshal(p) ==
  Present(p, Limits \union {"idle", "origDest", "initialSrc"} \union Optional(p)
             \union (IF p.activeLimit # DefaultActiveConnectionIDLimit
                     THEN {"activeLimit"} ELSE {}))

MarshalForSessionTicket(p) ==
  Present(p, Limits \union {"activeLimit"} \union Optional(p))

Marshals(p) == \A id \in Limits : p[id] <= MaxVarint

readNumericTransportParameter(id, v) ==
  IF id = "idle" THEN (IF v > MinRemoteIdleTimeout THEN v ELSE MinRemoteIdleTimeout)
  ELSE v

\* What a parameter that was not sent stands for.
Defaults ==
  [bidiLocal |-> 0, bidiRemote |-> 0, uni |-> 0, data |-> 0, bidiNum |-> 0,
   uniNum |-> 0, idle |-> 0, activeLimit |-> DefaultActiveConnectionIDLimit,
   datagram |-> InvalidByteCount, resetAt |-> FALSE, origDest |-> FALSE,
   initialSrc |-> FALSE]

unmarshal(b) ==
  [id \in DOMAIN Defaults |->
     IF id \in DOMAIN b THEN readNumericTransportParameter(id, b[id]) ELSE Defaults[id]]

\* The errors of unmarshal: a limit out of range, a connection ID missing.
Readable(b, fromSessionTicket) ==
  /\ \A id \in {"bidiNum", "uniNum"} \intersect DOMAIN b : b[id] <= MaxStreamCount
  /\ "activeLimit" \in DOMAIN b => b["activeLimit"] >= 2
  /\ fromSessionTicket \/ {"origDest", "initialSrc"} \subseteq DOMAIN b

-----------------------------------------------------------------------------
(* The two comparisons of a resumption.                                      *)

ExtensionsKept(p, saved) ==
  /\ saved.datagram # InvalidByteCount => p.datagram >= saved.datagram
  /\ saved.resetAt => p.resetAt

ValidFor0RTT(p, saved) ==
  /\ ExtensionsKept(p, saved)
  /\ \A l \in Limits : p[l] >= saved[l]
  /\ p.activeLimit = saved.activeLimit

ValidForUpdate(p, saved) ==
  /\ ExtensionsKept(p, saved)
  /\ p.activeLimit >= saved.activeLimit
  /\ \A l \in Limits : p[l] >= saved[l]

-----------------------------------------------------------------------------
Init ==
  /\ conf \in {populateConfig(validateConfig(c)) : c \in Configs}
  /\ gm \in BOOLEAN
  /\ phase = "start"
  /\ peerParams = Defaults
  /\ ticket = Absent
  /\ accepted = FALSE
  /\ reconfigured = 0

\* A connection without 0-RTT: the client learns the server's parameters.
Connect ==
  /\ phase = "start"
  /\ phase' = CASE ~Marshals(ourParams(conf)) -> "panic"
                [] Readable(Marshal(ourParams(conf)), FALSE) -> "connected"
                [] OTHER -> "rejected"
  /\ peerParams' = IF phase' = "connected" THEN unmarshal(Marshal(ourParams(conf)))
                   ELSE peerParams
  /\ UNCHANGED <<conf, gm, ticket, accepted, reconfigured>>

\* The server issues a ticket with its parameters, the client stores it with
\* those it received: for crypto/tls both in the ticket's format.
IssueTicket ==
  /\ phase = "connected" /\ conf.allow0RTT
  /\ LET Saved(p) == IF gm THEN Marshal(p) ELSE MarshalForSessionTicket(p) IN
       ticket' = [server |-> Saved(ourParams(conf)), client |-> Saved(peerParams)]
  /\ phase' = "idle"
  /\ UNCHANGED <<conf, gm, peerParams, accepted, reconfigured>>

\* The server is restarted with another Config.
Reconfigure ==
  /\ phase = "idle" /\ reconfigured < MaxReconfigurations
  /\ conf' \in {populateConfig(validateConfig(c)) : c \in Configs}
  /\ reconfigured' = reconfigured + 1
  /\ UNCHANGED <<gm, phase, peerParams, ticket, accepted>>

\* The client dials again: it restores the parameters of its ticket and sends
\* 0-RTT data under their limits.
restoreTransportParameters ==
  /\ phase = "idle"
  /\ Readable(ticket.client, ~gm)
  /\ peerParams' = unmarshal(ticket.client)
  /\ phase' = "early"
  /\ UNCHANGED <<conf, gm, ticket, accepted, reconfigured>>

\* The server reads the ticket and decides about the 0-RTT data.
handleSessionTicket ==
  /\ phase = "early"
  /\ accepted' = (/\ Readable(ticket.server, ~gm)
                  /\ ValidFor0RTT(ourParams(conf), unmarshal(ticket.server))
                  /\ conf.allow0RTT)
  /\ phase' = "decided"
  /\ UNCHANGED <<conf, gm, peerParams, ticket, reconfigured>>

\* The client reads the parameters of the new connection. The ticket is used up.
handleTransportParameters ==
  /\ phase = "decided"
  /\ phase' = CASE ~Marshals(ourParams(conf)) -> "panic"
                [] accepted /\ ~ValidForUpdate(unmarshal(Marshal(ourParams(conf))), peerParams)
                     -> "reduced"
                [] OTHER -> "connected"
  /\ peerParams' = IF phase' = "connected" THEN unmarshal(Marshal(ourParams(conf)))
                   ELSE peerParams
  /\ ticket' = Absent
  /\ accepted' = FALSE
  /\ UNCHANGED <<conf, gm, reconfigured>>

Next ==
  Connect \/ IssueTicket \/ Reconfigure \/ restoreTransportParameters
    \/ handleSessionTicket \/ handleTransportParameters

Spec == Init /\ [][Next]_vars

-----------------------------------------------------------------------------
(* Properties.                                                               *)

\* Types; the streams announced stay within what the peer may announce.
TypeOK ==
  /\ phase \in {"start", "connected", "idle", "early", "decided", "rejected", "reduced", "panic"}
  /\ DOMAIN peerParams = DOMAIN Defaults
  /\ peerParams.bidiNum \in 0..MaxStreamCount /\ peerParams.uniNum \in 0..MaxStreamCount
  /\ accepted \in BOOLEAN /\ gm \in BOOLEAN /\ reconfigured \in 0..MaxReconfigurations

\* Marshal leaves out what equals a default and unmarshal puts it back: once
\* connected, the client holds exactly the server's limits.
WireAgrees ==
  phase = "connected" =>
    \A id \in DOMAIN Defaults \ {"idle"} : peerParams[id] = ourParams(conf)[id]

\* 0-RTT data the server accepts was sent under limits the server grants now,
\* and with extensions it still has, in either encoding of the ticket.
EarlyDataWithinLimits ==
  phase = "decided" /\ accepted =>
    /\ \A l \in Limits : peerParams[l] <= ourParams(conf)[l]
    /\ peerParams.datagram <= ourParams(conf).datagram
    /\ peerParams.resetAt => ourParams(conf).resetAt

\* Client and server compare by different rules (ValidForUpdate, ValidFor0RTT):
\* a client never fails a connection whose 0-RTT data an honest server accepted,
\* and no server of this code announces parameters its client refuses.
HonestResumption == phase \notin {"reduced", "rejected"}

\* A server that kept its limits never turns a ticket down.
UnchangedIsAccepted ==
  phase = "decided" /\ reconfigured = 0 => accepted

\* Every Config can be used: Config documents the windows as clipped to the
\* largest varint, so announcing them never panics.
EveryConfigWorks == phase # "panic"

=============================================================================
