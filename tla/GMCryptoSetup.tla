---------------------------- MODULE GMCryptoSetup ---------------------------
(***************************************************************************)
(* The two layers below the handshake of a connection: the TLS 1.3 GM      *)
(* handshakers, and GMCryptoSetup, the adapter between them and QUIC.      *)
(***************************************************************************)
EXTENDS Sequences, SequencesExt

(***************************************************************************)
(* The two handshakers of the TLS 1.3 GM engine (tls13gm/handshake.go) as  *)
(* functions on their state: each operator is one step method of           *)
(* ClientHandshaker or ServerHandshaker.                                   *)
(*                                                                         *)
(* A handshake message is [type, body, mac]: body is what its extensions   *)
(* say and the properties can tell apart, mac the value that binds it to   *)
(* the handshake (binder, signature, verify_data).  Secrets are the terms  *)
(* they are derived from, so two sides hold the same key exactly when they *)
(* derived it from the same inputs.  A step that returns an error sets     *)
(* err; its caller closes the connection.                                  *)
(***************************************************************************)
NoPSK == "no psk"          \* resumptionPSK == nil
TicketPSK == "ticket psk"  \* the PSK sealed in the ticket the client holds
ZeroedPSK == "zeroed psk"  \* the same slice after memsecure.ZeroBytes
PSKs == {NoPSK, TicketPSK, ZeroedPSK}

NoKeys == <<>>

(***************************************************************************)
(* What the two ends were configured with.                                 *)
(*   ticket       the client resumes: ResumptionPSK and Identity are set   *)
(*   early        ClientConfig.EarlyData                                   *)
(*   saved        ResumptionAppData is there and parses                    *)
(*   tek          the server's ticket keys: none configured, rotated past  *)
(*                the one that sealed the ticket, or still able to open it *)
(*   admitsEarly  AllowEarlyData, an acceptor is set and it accepts        *)
(*   paramsValid  ourParams.ValidFor0RTT(the ticket's parameters)          *)
(*   alpn         the two ALPN lists overlap                               *)
(*   trusted      the client's PKI check accepts the server's chain        *)
(*   retry        the server is one that sends a HelloRetryRequest         *)
(*   shared       another connection was made from the same ClientConfig   *)
(***************************************************************************)
Configuration ==
  [ticket : BOOLEAN, early : BOOLEAN, saved : BOOLEAN,
   tek : {"none", "rotated", "current"}, admitsEarly : BOOLEAN,
   paramsValid : BOOLEAN, alpn : BOOLEAN, trusted : BOOLEAN, retry : BOOLEAN,
   shared : BOOLEAN]

(* tls13ClientConfig and Listen refuse the other combinations. *)
ValidConfiguration(cfg) ==
  /\ cfg.early => cfg.ticket
  /\ cfg.admitsEarly => cfg.tek # "none"

Message(type, body, mac) == [type |-> type, body |-> body, mac |-> mac]

AddMessage(transcript, m) == Append(transcript, <<m.type, m.body>>)

(* message_hash(ClientHello1) || HelloRetryRequest. *)
ResetForHelloRetry(transcript, hrr) == <<<<"message_hash", transcript>>, <<hrr.type, hrr.body>>>>

Fail(h) == [h EXCEPT !.err = TRUE]

handshakeSecret(psk, transcript) == <<"hs", psk, transcript>>
applicationSecret(secret, transcript) == <<"ap", secret, transcript>>
resumptionPSK(secret, transcript) == <<"res", secret, transcript>>
earlyTrafficKeys(psk, transcript) == <<"early", psk, transcript>>

DiscardEarlyKeys(h) == [h EXCEPT !.earlyKeys = NoKeys]

-----------------------------------------------------------------------------
(* The client.                                                             *)

NewClientHandshaker(cfg) ==
  [phase |-> "None", transcript |-> <<>>, offerEarlyData |-> cfg.early,
   clientHello1Full |-> FALSE, pskMode |-> FALSE, earlyDataAccepted |-> FALSE,
   verifiedCert |-> FALSE, earlyKeys |-> NoKeys, hsSecret |-> NoKeys,
   apSecret |-> NoKeys, clientFinishedSent |-> FALSE, err |-> FALSE]

(* The pre_shared_key offer and its binder over the transcript before this *)
(* ClientHello and the ClientHello itself.  psk is the slice shared with   *)
(* ClientConfig; the identity is wiped together with it.                   *)
buildClientHello(c, n, psk) ==
  LET body == [n |-> n, identity |-> psk, early |-> psk # NoPSK /\ c.offerEarlyData]
  IN  Message("ClientHello", body,
              IF psk = NoPSK THEN NoKeys
              ELSE <<"binder", psk, AddMessage(c.transcript, Message("ClientHello", body, NoKeys))>>)

ClientHello(c, psk) ==
  LET t == AddMessage(c.transcript, buildClientHello(c, 1, psk))
  IN  IF c.phase # "None" THEN Fail(c)
      ELSE [c EXCEPT !.clientHello1Full = TRUE, !.transcript = t,
                     !.phase = "AfterClientHello",
                     !.earlyKeys = IF psk # NoPSK /\ c.offerEarlyData
                                   THEN earlyTrafficKeys(psk, t) ELSE NoKeys]


(* A ServerHello with the retry sentinel goes to HandleHelloRetryRequest.  *)
HandleServerHello(c, m, psk) ==
  LET t == AddMessage(c.transcript, m)
  IN  CASE c.phase # "AfterClientHello" -> Fail(c)
        [] c.phase = "AfterClientHello" /\ m.body.psk /\ psk = NoPSK -> Fail(c)
        [] OTHER ->
             [c EXCEPT !.pskMode = m.body.psk, !.transcript = t,
                       !.hsSecret = handshakeSecret(IF m.body.psk THEN psk ELSE NoPSK, t),
                       !.phase = "AfterServerHello"]

(* ClientHello2 is sent to the peer by the caller: see SecondClientHello.  *)
afterRetry(c, m) ==
  DiscardEarlyKeys([c EXCEPT !.transcript = ResetForHelloRetry(c.transcript, m),
                             !.offerEarlyData = FALSE])

SecondClientHello(c, m, psk) == buildClientHello(afterRetry(c, m), 2, psk)

HandleHelloRetryRequest(c, m, psk) ==
  IF c.phase # "AfterClientHello" \/ ~c.clientHello1Full THEN Fail(c)
  ELSE [afterRetry(c, m) EXCEPT !.transcript = AddMessage(@, SecondClientHello(c, m, psk)),
                                !.clientHello1Full = FALSE]

HandleEncryptedExtensionsAssumingEcho(c, m) ==
  IF c.phase # "AfterServerHello" \/ ~m.body.alpn THEN Fail(c)
  ELSE [c EXCEPT !.earlyDataAccepted = c.offerEarlyData /\ c.pskMode,
                 !.transcript = AddMessage(@, m),
                 !.phase = IF c.pskMode THEN "AfterCertificateVerify"
                                        ELSE "AfterEncryptedExtensions"]

HandleEncryptedExtensions(c, m) ==
  IF c.phase # "AfterServerHello" \/ ~m.body.alpn THEN Fail(c)
  ELSE [c EXCEPT !.earlyDataAccepted = c.offerEarlyData /\ c.pskMode /\ m.body.early,
                 !.transcript = AddMessage(@, m),
                 !.phase = IF c.pskMode THEN "AfterCertificateVerify"
                                        ELSE "AfterEncryptedExtensions"]

HandleCertificate(c, m, trusted) ==
  IF c.phase # "AfterEncryptedExtensions" \/ ~trusted THEN Fail(c)
  ELSE [c EXCEPT !.transcript = AddMessage(@, m), !.phase = "AfterCertificate"]

HandleCertificateVerify(c, m) ==
  IF c.phase # "AfterCertificate" \/ m.mac # <<"sig", c.transcript>> THEN Fail(c)
  ELSE [c EXCEPT !.transcript = AddMessage(@, m), !.phase = "AfterCertificateVerify",
                 !.verifiedCert = TRUE]

HandleServerFinished(c, m) ==
  LET t == AddMessage(c.transcript, m)
  IN  IF \/ c.phase # "AfterCertificateVerify"
         \/ m.mac # <<"server", c.hsSecret, c.transcript>> THEN Fail(c)
      ELSE [c EXCEPT !.transcript = t, !.apSecret = applicationSecret(c.hsSecret, t),
                     !.phase = "AfterServerFinished"]

clientFinishedMessage(c) ==
  Message("Finished", "client", <<"client", c.hsSecret, c.transcript>>)

ClientFinished(c) ==
  IF c.phase # "AfterServerFinished" THEN Fail(c)
  ELSE [c EXCEPT !.transcript = AddMessage(@, clientFinishedMessage(c)),
                 !.clientFinishedSent = TRUE]

(* The resumption PSK the client derives from a NewSessionTicket.          *)
HandleNewSessionTicket(c) ==
  IF ~c.clientFinishedSent THEN NoKeys ELSE resumptionPSK(c.apSecret, c.transcript)

-----------------------------------------------------------------------------
(* The server.                                                             *)

NewServerHandshaker ==
  [phase |-> "None", transcript |-> <<>>, selectedPSK |-> NoPSK,
   acceptedEarlyData |-> FALSE, earlyKeys |-> NoKeys, hsSecret |-> NoKeys,
   apSecret |-> NoKeys, err |-> FALSE]

(* The outcome of verifyPSKBinder: the PSK it selects (none when no key    *)
(* opens the identity), or an error for a binder that does not match or a  *)
(* server without ticket keys.  prefix is empty except after a retry.      *)
verifyPSKBinder(tek, m, prefix) ==
  CASE tek = "none" -> [psk |-> NoPSK, err |-> TRUE]
    [] tek # "none" /\ (tek = "rotated" \/ m.body.identity # TicketPSK) ->
         [psk |-> NoPSK, err |-> FALSE]
    [] OTHER ->
         [psk |-> TicketPSK, err |-> m.mac # <<"binder", TicketPSK, AddMessage(prefix, m)>>]

HandleClientHello(s, m, cfg) ==
  LET t == AddMessage(s.transcript, m)
      binder == IF m.body.identity = NoPSK THEN [psk |-> NoPSK, err |-> FALSE]
                ELSE verifyPSKBinder(cfg.tek, m, s.transcript)
      received == [s EXCEPT !.transcript = t, !.phase = "AfterClientHello"]
  IN  CASE s.phase # "None" \/ ~cfg.alpn -> Fail(s)
        [] s.phase = "None" /\ cfg.alpn /\ binder.err -> Fail(received)
        [] OTHER ->
             [received EXCEPT
                !.selectedPSK = binder.psk,
                !.earlyKeys = IF m.body.early /\ binder.psk # NoPSK /\ cfg.admitsEarly
                              THEN earlyTrafficKeys(binder.psk, t) ELSE NoKeys]

(* The flight of messages, in order; Certificate and CertificateVerify are *)
(* left out when a PSK was selected.                                       *)
flightMessages(s) ==
  LET sh == Message("ServerHello", [psk |-> s.selectedPSK # NoPSK], NoKeys)
      t1 == AddMessage(s.transcript, sh)
      secret == handshakeSecret(s.selectedPSK, t1)
      ee == Message("EncryptedExtensions", [early |-> s.earlyKeys # NoKeys, alpn |-> TRUE], NoKeys)
      t2 == AddMessage(t1, ee)
      cert == Message("Certificate", "leaf", NoKeys)
      t3 == AddMessage(t2, cert)
      cv == Message("CertificateVerify", "SM2SigSM3", <<"sig", t3>>)
      t4 == AddMessage(t3, cv)
      fin(t) == Message("Finished", "server", <<"server", secret, t>>)
  IN  IF s.selectedPSK # NoPSK THEN <<sh, ee, fin(t2)>> ELSE <<sh, ee, cert, cv, fin(t4)>>

afterFlight(s, flight, secret) ==
  LET t == s.transcript \o [i \in DOMAIN flight |-> <<flight[i].type, flight[i].body>>]
  IN  [s EXCEPT !.transcript = t, !.hsSecret = secret,
                !.apSecret = applicationSecret(secret, t),
                !.acceptedEarlyData = s.earlyKeys # NoKeys,
                !.phase = "AfterFlight"]

ServerFlight(s, flight) ==
  IF s.phase # "AfterClientHello" THEN Fail(s)
  ELSE afterFlight(s, flight,
                   handshakeSecret(s.selectedPSK, AddMessage(s.transcript, flight[1])))

HandleClientFinished(s, m) ==
  IF s.phase # "AfterFlight" \/ m.mac # <<"client", s.hsSecret, s.transcript>> THEN Fail(s)
  ELSE [s EXCEPT !.transcript = AddMessage(@, m), !.phase = "AfterClientFinished"]

(* The ticket seals the PSK the client is to derive. *)
NewSessionTicket(s) ==
  Message("NewSessionTicket", resumptionPSK(s.apSecret, s.transcript), NoKeys)

(* A third-party server's HelloRetryRequest: it answers ClientHello1 and   *)
(* keeps only the reset transcript.  The GM server itself never sends one. *)
retryMessage == Message("HelloRetryRequest", "cookie", NoKeys)

RetryInsteadOfFlight(s, m) ==
  [s EXCEPT !.transcript = ResetForHelloRetry(<<<<m.type, m.body>>>>, retryMessage)]

-----------------------------------------------------------------------------
(***************************************************************************)
(* GMCryptoSetup (quic-go/internal/handshake/gm_crypto_setup.go): the      *)
(* adapter between a tls13gm handshaker and the QUIC connection.  It feeds *)
(* CRYPTO messages to the handshaker, holds the packet protection keys of  *)
(* the four encryption levels, and queues events for the connection.       *)
(*                                                                         *)
(* A setup is a record; every method is an operator on it.  g.err is the   *)
(* error HandleMessage returned.  A getter yields [err, key].              *)
(***************************************************************************)
Client == "client"
Server == "server"
Role == {Client, Server}
Opposite(e) == IF e = Client THEN Server ELSE Client

Level == {"Initial", "0RTT", "Handshake", "1RTT"}

Event(kind) == [kind |-> kind, data |-> <<>>]
WriteEvent(kind, data) == [kind |-> kind, data |-> data]

enqueue(g, ev) == [g EXCEPT !.events = Append(@, ev)]

newGMCryptoSetup(role, hs) ==
  [role |-> role, hs |-> hs, events |-> <<>>, zeroRTT |-> NoKeys,
   hsKeys |-> NoKeys, oneRTT |-> NoKeys, handshakeDone |-> FALSE,
   initialDropped |-> FALSE, handshakeDropped |-> FALSE,
   sessionPSK |-> NoKeys, err |-> FALSE]

NewGMCryptoSetupClient(cfg) == newGMCryptoSetup(Client, NewClientHandshaker(cfg))
NewGMCryptoSetupServer == newGMCryptoSetup(Server, NewServerHandshaker)

(* A handshaker step's result becomes the setup's; its error is returned. *)
withHandshaker(g, hs) == [g EXCEPT !.hs = hs, !.err = hs.err]

(* The rest of a method, after the step that may have returned an error.   *)
ifOK(g, Rest(_)) == IF g.err THEN g ELSE Rest(g)

discard0RTTCodecs(g) == [g EXCEPT !.zeroRTT = NoKeys]

discardEarly(g) == discard0RTTCodecs([g EXCEPT !.hs = DiscardEarlyKeys(@)])

-----------------------------------------------------------------------------
(* Keys.                                                                   *)

installHandshakeKeys(g) ==
  LET early == g.role = Server /\ g.hs.earlyKeys # NoKeys
      announced == IF early THEN enqueue(g, Event("Received0RTTReadKeys")) ELSE g
  IN  enqueue([announced EXCEPT !.hsKeys = g.hs.hsSecret], Event("ReceivedHandshakeReadKeys"))


install1RTTKeys(g) ==
  LET installed == [g EXCEPT !.oneRTT = g.hs.apSecret]
  IN  IF g.role = Client THEN enqueue(installed, Event("Received1RTTReadKeys")) ELSE installed

Found(key) == [err |-> "none", key |-> key]
KeysDropped == [err |-> "dropped", key |-> NoKeys]
KeysNotYetAvailable == [err |-> "not yet", key |-> NoKeys]

(* The Initial keys are a function of the connection ID both sides know.   *)
InitialKeys == <<"initial">>
GetInitialOpener(g) == IF g.initialDropped THEN KeysDropped ELSE Found(InitialKeys)

GetHandshakeOpener(g) ==
  CASE g.handshakeDropped -> KeysDropped
    [] ~g.handshakeDropped /\ g.hsKeys = NoKeys -> KeysNotYetAvailable
    [] OTHER -> Found(g.hsKeys)

Get1RTTOpenerUngated(g) ==
  IF g.oneRTT = NoKeys THEN KeysNotYetAvailable ELSE Found(g.oneRTT)

Get1RTTOpener(g) ==
  IF g.oneRTT = NoKeys \/ (g.role = Server /\ ~g.handshakeDone)
  THEN KeysNotYetAvailable ELSE Found(g.oneRTT)

Get1RTTSealer(g) == IF g.oneRTT = NoKeys THEN KeysNotYetAvailable ELSE Found(g.oneRTT)

(* Get0RTTOpener on the server and Get0RTTSealer on the client: a codec    *)
(* built once is cached, and the cache is looked at first.                 *)
Get0RTTCodec(g) ==
  CASE g.zeroRTT # NoKeys -> Found(g.zeroRTT)
    [] g.zeroRTT = NoKeys /\ g.hs.earlyKeys # NoKeys -> Found(g.hs.earlyKeys)
    [] OTHER -> KeysNotYetAvailable

cache0RTTCodec(g) == [g EXCEPT !.zeroRTT = Get0RTTCodec(g).key]

Get0RTTOpener(g) == IF g.role = Server THEN Get0RTTCodec(g) ELSE KeysNotYetAvailable
Get0RTTSealer(g) == IF g.role = Client THEN Get0RTTCodec(g) ELSE KeysNotYetAvailable

GetOpener(g, level) ==
  CASE level = "Initial" -> GetInitialOpener(g)
    [] level = "Handshake" -> GetHandshakeOpener(g)
    [] level = "0RTT" -> Get0RTTOpener(g)
    [] level = "1RTT" -> Get1RTTOpener(g)

GetSealer(g, level) ==
  CASE level \in {"Initial", "Handshake"} -> GetOpener(g, level)
    [] level = "0RTT" -> Get0RTTSealer(g)
    [] level = "1RTT" -> Get1RTTSealer(g)

DiscardInitialKeys(g) == [g EXCEPT !.initialDropped = TRUE]

SetHandshakeConfirmed(g) ==
  LET dropped == [g EXCEPT !.handshakeDropped = TRUE, !.hsKeys = NoKeys]
  IN  IF g.role = Server /\ g.hs.earlyKeys # NoKeys
      THEN enqueue(discardEarly(dropped), Event("Discard0RTTKeys"))
      ELSE dropped

-----------------------------------------------------------------------------
(* Messages.                                                               *)

(* The client's ClientHello; 0-RTT is given up when the server's transport *)
(* parameters were not saved with the ticket.                              *)
startEarly(g, cfg) ==
  CASE g.hs.earlyKeys = NoKeys -> g
    [] g.hs.earlyKeys # NoKeys /\ cfg.saved -> enqueue(g, Event("RestoredTransportParameters"))
    [] OTHER -> discardEarly(g)

StartHandshake(g, cfg, psk) ==
  startEarly(enqueue(withHandshaker(g, ClientHello(g.hs, psk)),
                     WriteEvent("WriteInitial", <<buildClientHello(g.hs, 1, psk)>>)),
             cfg)

handleRetry(g, m, psk) ==
  LET tell(r) == IF g.hs.earlyKeys # NoKeys THEN enqueue(r, Event("Discard0RTTKeys")) ELSE r
      resend(r) == enqueue(tell(r), WriteEvent("WriteInitial", <<SecondClientHello(g.hs, m, psk)>>))
  IN  ifOK(withHandshaker(g, HandleHelloRetryRequest(g.hs, m, psk)), resend)

handleServerHello(g, m, psk) ==
  ifOK(withHandshaker(g, HandleServerHello(g.hs, m, psk)), installHandshakeKeys)

receivedParameters(g) == enqueue(g, Event("ReceivedTransportParameters"))

handleEncryptedExtensionsSilently(g, m) ==
  ifOK(withHandshaker(g, HandleEncryptedExtensions(g.hs, m)), receivedParameters)

(* A rejected 0-RTT offer drops keys and codecs.                           *)
settleEarly(g) ==
  IF g.hs.offerEarlyData /\ ~g.hs.earlyDataAccepted
  THEN enqueue(discardEarly(g), Event("Discard0RTTKeys")) ELSE g

handleEncryptedExtensions(g, m) ==
  ifOK(withHandshaker(g, HandleEncryptedExtensions(g.hs, m)),
       LAMBDA answered : receivedParameters(settleEarly(answered)))

completeClientFlight(g) ==
  LET finished == withHandshaker(install1RTTKeys(g), ClientFinished(g.hs))
      written == enqueue(finished, WriteEvent("WriteHandshake", <<clientFinishedMessage(g.hs)>>))
  IN  enqueue([written EXCEPT !.handshakeDone = TRUE], Event("HandshakeComplete"))

handleServerFinished(g, m) ==
  ifOK(withHandshaker(g, HandleServerFinished(g.hs, m)), completeClientFlight)

harvestTicket(g) ==
  LET psk == HandleNewSessionTicket(g.hs)
  IN  IF psk = NoKeys THEN [g EXCEPT !.err = TRUE] ELSE [g EXCEPT !.sessionPSK = psk]

handleOneClient(g, m, level, cfg, psk) ==
  CASE level = "Initial" /\ m.type = "HelloRetryRequest" -> handleRetry(g, m, psk)
    [] level = "Initial" /\ m.type = "ServerHello" -> handleServerHello(g, m, psk)
    [] level = "Handshake" /\ m.type = "EncryptedExtensions" -> handleEncryptedExtensions(g, m)
    [] level = "Handshake" /\ m.type = "Certificate" ->
         withHandshaker(g, HandleCertificate(g.hs, m, cfg.trusted))
    [] level = "Handshake" /\ m.type = "CertificateVerify" ->
         withHandshaker(g, HandleCertificateVerify(g.hs, m))
    [] level = "Handshake" /\ m.type = "Finished" -> handleServerFinished(g, m)
    [] level = "1RTT" /\ m.type = "NewSessionTicket" -> harvestTicket(g)
    [] OTHER -> [g EXCEPT !.err = TRUE]

emitServerFlight(g, flight) ==
  enqueue(enqueue(install1RTTKeys(installHandshakeKeys(
                    withHandshaker(g, ServerFlight(g.hs, flight)))),
                  WriteEvent("WriteInitial", <<Head(flight)>>)),
          WriteEvent("WriteHandshake", Tail(flight)))

(* Early keys are given up when the ticket's transport parameters are not  *)
(* within the present ones.                                                *)
admitEarly(g, cfg) ==
  IF g.hs.earlyKeys # NoKeys /\ ~cfg.paramsValid THEN discardEarly(g) ELSE g

handleClientHello(g, m, cfg) ==
  LET flyFrom(h) == emitServerFlight(h, flightMessages(h.hs))
  IN  ifOK(withHandshaker(g, HandleClientHello(g.hs, m, cfg)),
           LAMBDA answered : flyFrom(receivedParameters(admitEarly(answered, cfg))))

handleClientHelloOrRetry(g, m, cfg) ==
  IF cfg.retry /\ m.body.n = 1
  THEN enqueue([g EXCEPT !.hs = RetryInsteadOfFlight(@, m)],
               WriteEvent("WriteInitial", <<retryMessage>>))
  ELSE handleClientHello(g, m, cfg)

handleClientFinished(g, m) ==
  ifOK(withHandshaker(g, HandleClientFinished(g.hs, m)),
       LAMBDA answered : enqueue(enqueue([answered EXCEPT !.handshakeDone = TRUE],
                                         Event("Received1RTTReadKeys")),
                                 Event("HandshakeComplete")))

handleOneServer(g, m, level, cfg) ==
  CASE level = "Initial" /\ m.type = "ClientHello" -> handleClientHelloOrRetry(g, m, cfg)
    [] level = "Handshake" /\ m.type = "Finished" -> handleClientFinished(g, m)
    [] OTHER -> [g EXCEPT !.err = TRUE]

handleOneMessage(g, m, level, cfg, psk) ==
  IF g.role = Client THEN handleOneClient(g, m, level, cfg, psk)
  ELSE handleOneServer(g, m, level, cfg)

(* HandleMessage on the bytes of one CRYPTO frame: the whole messages in   *)
(* it in order, then an error when it ends within a message.               *)
HandleMessage(g, msgs, truncated, level, cfg, psk) ==
  [FoldLeft(LAMBDA h, m : IF h.err THEN h ELSE handleOneMessage(h, m, level, cfg, psk), g, msgs)
     EXCEPT !.err = @ \/ truncated]
=============================================================================
