---------------------------- MODULE GMHandshake ----------------------------
(***************************************************************************)
(* A client and a server that set up a QUIC connection with the GM         *)
(* handshake: two connections (quic-go/connection.go), each with its       *)
(* GMCryptoSetup, over a network that loses, repeats and reorders packets. *)
(* net is the set of packets ever sent.  A packet of it may be received at *)
(* any time and any number of times, which covers retransmission.          *)
(*                                                                         *)
(* CRYPTO stream offsets count half messages: message i of a stream is at  *)
(* 2i-2 .. 2i-1, so a frame that ends at an odd offset ends within a       *)
(* message.                                                                *)
(***************************************************************************)
EXTENDS GMCryptoSetup, Naturals, FiniteSets

CONSTANTS Configs,           \* the configurations considered
          MaxUndecryptable,  \* protocol.MaxUndecryptablePackets
          CutsMessages       \* may a CRYPTO frame end within a message?

ASSUME HandshakeAssumption ==
  /\ Configs \subseteq {cfg \in Configuration : ValidConfiguration(cfg)}
  /\ MaxUndecryptable \in Nat
  /\ CutsMessages \in BOOLEAN

VARIABLES cfg,   \* the configuration
          psk,   \* the bytes of ClientConfig.ResumptionPSK
          conn,  \* the connection at each end
          net    \* the packets sent so far

vars == <<cfg, psk, conn, net>>

CryptoLevel == {"Initial", "Handshake", "1RTT"}

newConnection(setup) ==
  [setup |-> setup, status |-> "open", started |-> FALSE,
   handshakeComplete |-> FALSE, handshakeConfirmed |-> FALSE, earlyReady |-> FALSE,
   undecryptable |-> <<>>, toProcess |-> <<>>,
   out |-> [l \in CryptoLevel |-> <<>>], sent |-> [l \in CryptoLevel |-> 0],
   readPos |-> [l \in CryptoLevel |-> 0], sorter |-> [l \in CryptoLevel |-> {}],
   finished |-> {}, reset0RTT |-> FALSE, done |-> FALSE, delivered |-> {}]

Init ==
  /\ cfg \in Configs
  /\ psk = IF cfg.ticket THEN TicketPSK ELSE NoPSK
  /\ conn = [e \in Role |-> newConnection(IF e = Client THEN NewGMCryptoSetupClient(cfg)
                                          ELSE NewGMCryptoSetupServer)]
  /\ net = {}

closed(c) == [c EXCEPT !.status = "failed"]

-----------------------------------------------------------------------------
(* handleHandshakeEvents.                                                  *)

Finish(c, level) ==
  IF c.sorter[level] # {} THEN closed(c) ELSE [c EXCEPT !.finished = @ \cup {level}]

queueUndecryptable(c) ==
  [c EXCEPT !.toProcess = @ \o c.undecryptable, !.undecryptable = <<>>]

handleEvent(c, ev) ==
  CASE ev.kind = "HandshakeComplete" -> [c EXCEPT !.handshakeComplete = TRUE]
    [] ev.kind = "ReceivedTransportParameters" -> c
    [] ev.kind = "RestoredTransportParameters" -> [c EXCEPT !.earlyReady = TRUE]
    [] ev.kind = "Received0RTTReadKeys" -> queueUndecryptable(c)
    [] ev.kind = "ReceivedHandshakeReadKeys" -> queueUndecryptable(Finish(c, "Initial"))
    [] ev.kind = "Received1RTTReadKeys" -> queueUndecryptable(Finish(c, "Handshake"))
    [] ev.kind = "Discard0RTTKeys" -> [c EXCEPT !.reset0RTT = TRUE]
    [] ev.kind = "WriteInitial" -> [c EXCEPT !.out["Initial"] = @ \o ev.data]
    [] ev.kind = "WriteHandshake" -> [c EXCEPT !.out["Handshake"] = @ \o ev.data]

handleHandshakeEvents(c) ==
  LET one(d, ev) == IF d.status = "open" THEN handleEvent(d, ev) ELSE d
  IN  FoldLeft(one, [c EXCEPT !.setup.events = <<>>], c.setup.events)

-----------------------------------------------------------------------------
(* Completion and confirmation.                                            *)

handleHandshakeConfirmed(c) ==
  [c EXCEPT !.handshakeConfirmed = TRUE,
            !.setup = SetHandshakeConfirmed(DiscardInitialKeys(@))]

(* The server confirms at once and sends a ticket and HANDSHAKE_DONE.      *)
handleHandshakeComplete(c) ==
  LET complete == [c EXCEPT !.undecryptable = <<>>]
      confirmed == handleHandshakeConfirmed(complete)
  IN  CASE c.setup.role = Client -> complete
        [] c.setup.role = Server /\ cfg.tek = "none" -> closed(confirmed)
        [] OTHER -> [confirmed EXCEPT !.out["1RTT"] = Append(@, NewSessionTicket(c.setup.hs)),
                                      !.done = TRUE]

-----------------------------------------------------------------------------
(* CRYPTO frames.                                                          *)

Frame(kind, start, end) == [kind |-> kind, start |-> start, end |-> end]
Packet(from, level, key, frame) == [from |-> from, level |-> level, key |-> key, frame |-> frame]

(* The whole messages of a stream that lie within a frame. *)
messagesIn(stream, f) == SubSeq(stream, (f.start + 1) \div 2 + 1, f.end \div 2)

(* The queued frames that GetCryptoData pops, one after the other.         *)
contiguous(queue, readPos) ==
  SetToSortSeq({f \in queue : \A x \in readPos .. f.start - 1 :
                                 \E h \in queue : h.start <= x /\ x < h.end},
               LAMBDA f, h : f.start < h.start)

(* The popped frames go to HandleMessage until it returns an error.        *)
readChain(c, level, queue, chain, stream) ==
  [c EXCEPT !.setup = FoldLeft(LAMBDA g, h :
                        IF g.err THEN g
                        ELSE HandleMessage(g, messagesIn(stream, h), h.end % 2 = 1, level, cfg, psk),
                        @, chain),
            !.sorter[level] = queue \ ToSet(chain),
            !.readPos[level] = IF chain = <<>> THEN @ ELSE Last(chain).end]

afterRead(c) == IF c.setup.err THEN closed(c) ELSE handleHandshakeEvents(c)

handleCryptoFrame(c, level, f, stream) ==
  LET new == f.end > c.readPos[level]
      queue == IF new THEN c.sorter[level] \cup {f} ELSE c.sorter[level]
  IN  IF new /\ level \in c.finished THEN closed(c)
      ELSE afterRead(readChain(c, level, queue, contiguous(queue, c.readPos[level]), stream))

-----------------------------------------------------------------------------
(* Packets.                                                                *)

(* HANDSHAKE_DONE, or a 1-RTT acknowledgement, at the client.              *)
handleConfirmation(c) == IF c.handshakeConfirmed THEN c ELSE handleHandshakeConfirmed(c)

handleFrame(c, p, stream) ==
  CASE p.frame.kind = "crypto" -> handleCryptoFrame(c, p.level, p.frame, stream)
    [] p.frame.kind = "stream" -> [c EXCEPT !.delivered = @ \cup {p.level}]
    [] p.frame.kind \in {"ack", "done"} -> handleConfirmation(c)

(* A packet that was decrypted. *)
afterFrame(before, c) ==
  IF c.status = "open" /\ ~before.handshakeComplete /\ c.handshakeComplete
  THEN handleHandshakeComplete(c) ELSE c

handleUnpacked(c, p, stream) ==
  LET opened == IF c.setup.role = Server /\ p.level = "Handshake"
                THEN [c EXCEPT !.setup = DiscardInitialKeys(@)] ELSE c
  IN  afterFrame(c, handleFrame(opened, p, stream))

tryQueueingUnbounded(c, p) ==
  IF c.handshakeComplete THEN [c EXCEPT !.status = "panicked"]
  ELSE [c EXCEPT !.undecryptable = Append(@, p)]

tryQueueingUndecryptablePacket(c, p) ==
  CASE c.handshakeComplete -> [c EXCEPT !.status = "panicked"]
    [] ~c.handshakeComplete /\ Len(c.undecryptable) + 1 > MaxUndecryptable -> c
    [] OTHER -> [c EXCEPT !.undecryptable = Append(@, p)]

(* A server of another make, the one that retries, ignores 0-RTT packets.  *)
ignores0RTT(c, p) == cfg.retry /\ c.setup.role = Server /\ p.level = "0RTT"

handleOnePacket(c, p, stream) ==
  LET opener == GetOpener(c.setup, p.level)
      asked == IF p.level = "0RTT" THEN [c EXCEPT !.setup = cache0RTTCodec(@)] ELSE c
      ignored == c.status # "open" \/ ignores0RTT(c, p) \/ opener.err = "dropped"
  IN  CASE ignored -> c
        [] ~ignored /\ opener.err = "not yet" -> tryQueueingUndecryptablePacket(c, p)
        [] ~ignored /\ opener.err = "none" ->
             IF opener.key # p.key THEN asked ELSE handleUnpacked(asked, p, stream)

streamOf(p) == IF p.frame.kind = "crypto" THEN conn[p.from].out[p.level] ELSE <<>>

-----------------------------------------------------------------------------
(* Actions.                                                                *)

Update(e, c) == conn' = [conn EXCEPT ![e] = c]

(* run: StartHandshake, then the events it queued. *)
Start ==
  /\ ~conn[Client].started
  /\ Update(Client, handleHandshakeEvents(
              [conn[Client] EXCEPT !.started = TRUE,
                                   !.setup = StartHandshake(@, cfg, psk)]))
  /\ UNCHANGED <<cfg, psk, net>>

(* PackCoalescedPacket asks for the 0-RTT sealer of a client without 1-RTT *)
(* keys, unless the packet is already full.                                *)
packed(g, full) ==
  IF ~full /\ Get1RTTSealer(g).err # "none" /\ Get0RTTSealer(g).err = "none"
  THEN cache0RTTCodec(g) ELSE g

(* The client drops the Initial keys with its first Handshake packet.      *)
SendCrypto(e, level, end, full) ==
  LET c == conn[e]
      g == packed(c.setup, full)
      sealer == GetSealer(c.setup, level)
  IN  /\ c.status = "open"
      /\ sealer.err = "none"
      /\ c.sent[level] < end /\ end <= 2 * Len(c.out[level])
      /\ ~CutsMessages => end % 2 = 0
      /\ Update(e, [c EXCEPT !.sent[level] = end,
                             !.setup = IF e = Client /\ level = "Handshake"
                                       THEN DiscardInitialKeys(g) ELSE g])
      /\ net' = net \cup {Packet(e, level, sealer.key, Frame("crypto", c.sent[level], end))}
      /\ UNCHANGED <<cfg, psk>>

(* Application data goes out at 1-RTT when those keys exist, and before    *)
(* that at 0-RTT on a client whose early connection is ready.              *)
SendStream(e) ==
  LET c == conn[e]
      level == IF Get1RTTSealer(c.setup).err = "none" THEN "1RTT" ELSE "0RTT"
      sealer == GetSealer(c.setup, level)
  IN  /\ c.status = "open"
      /\ sealer.err = "none"
      /\ level = "0RTT" => c.earlyReady /\ ~c.reset0RTT
      /\ Update(e, [c EXCEPT !.setup = IF level = "0RTT" THEN cache0RTTCodec(@) ELSE @])
      /\ net' = net \cup {Packet(e, level, sealer.key, Frame("stream", 0, 0))}
      /\ UNCHANGED <<cfg, psk>>

(* HANDSHAKE_DONE, or the acknowledgement of a 1-RTT packet: either one    *)
(* confirms the handshake on the client.                                   *)
SendConfirmation(kind) ==
  LET c == conn[Server]
  IN  /\ c.status = "open"
      /\ kind = "done" => c.done
      /\ kind = "ack" => "1RTT" \in c.delivered
      /\ net' = net \cup {Packet(Server, "1RTT", c.setup.oneRTT, Frame(kind, 0, 0))}
      /\ UNCHANGED <<cfg, psk, conn>>

Receive(e, p) ==
  /\ conn[e].status = "open"
  /\ p.from = Opposite(e)
  /\ Update(e, handleOnePacket(conn[e], p, streamOf(p)))
  /\ UNCHANGED <<cfg, psk, net>>

(* The run loop's first step: the queued packets, all of them.             *)
HandleUndecryptable(e) ==
  /\ conn[e].status = "open"
  /\ conn[e].toProcess # <<>>
  /\ Update(e, FoldLeft(LAMBDA c, p : handleOnePacket(c, p, streamOf(p)),
                        [conn[e] EXCEPT !.toProcess = <<>>], conn[e].toProcess))
  /\ UNCHANGED <<cfg, psk, net>>

(* Close of another connection made from the same ClientConfig: Zero wipes *)
(* the PSK slice its handshaker was given.                                 *)
CloseOther ==
  /\ cfg.shared
  /\ psk = TicketPSK
  /\ psk' = ZeroedPSK
  /\ UNCHANGED <<cfg, conn, net>>

(* The longest stream is the Handshake stream of a server with a certificate. *)
MaxOffset == 8

Next ==
  \/ Start
  \/ \E e \in Role, level \in CryptoLevel, end \in 1 .. MaxOffset, full \in BOOLEAN :
       SendCrypto(e, level, end, full)
  \/ \E e \in Role : SendStream(e)
  \/ \E kind \in {"ack", "done"} : SendConfirmation(kind)
  \/ \E e \in Role, p \in net : Receive(e, p)
  \/ \E e \in Role : HandleUndecryptable(e)
  \/ CloseOther

Spec == Init /\ [][Next]_vars

(* Each run loop keeps going: as long as there is a packet to handle that  *)
(* changes something, or handshake data to send, it takes some such step.  *)
(* A lost packet counts as not yet received, for loss recovery sends its   *)
(* content again.  Nothing is asked of the application's data.             *)
runLoop(e) ==
  \/ e = Client /\ Start
  \/ \E level \in CryptoLevel, end \in 1 .. MaxOffset : SendCrypto(e, level, end, TRUE)
  \/ e = Server /\ SendConfirmation("done")
  \/ \E p \in net : Receive(e, p)
  \/ HandleUndecryptable(e)

(* ENABLED <<runLoop(e)>>_vars, spelled out. *)
canRun(e) ==
  LET c == conn[e]
  IN  /\ c.status = "open"
      /\ \/ e = Client /\ ~c.started
         \/ \E level \in CryptoLevel : /\ GetSealer(c.setup, level).err = "none"
                                       /\ c.sent[level] < 2 * Len(c.out[level])
         \/ e = Server /\ c.done /\ \A p \in net : p.frame.kind # "done"
         \/ \E p \in net : p.from = Opposite(e) /\ handleOnePacket(c, p, streamOf(p)) # c
         \/ c.toProcess # <<>>

(* Weak fairness of each run loop. *)
Fairness == \A e \in Role : []<>~canRun(e) \/ []<><<runLoop(e)>>_vars

FairSpec == Spec /\ Fairness

-----------------------------------------------------------------------------
(* Properties.                                                             *)

(* Connection states are well formed: the queues stay within their limits, *)
(* no frame is kept that was already read, and nothing is read that the    *)
(* peer did not write.                                                     *)
TypeOK ==
  /\ cfg \in Configs /\ psk \in PSKs
  /\ \A e \in Role :
       /\ conn[e].status \in {"open", "failed", "panicked"}
       /\ Len(conn[e].undecryptable) <= MaxUndecryptable
       /\ conn[e].delivered \subseteq {"0RTT", "1RTT"}
       /\ conn[e].finished \subseteq CryptoLevel
       /\ \A level \in CryptoLevel :
            /\ conn[e].readPos[level] <= conn[Opposite(e)].sent[level]
            /\ \A f \in conn[e].sorter[level] : f.start > conn[e].readPos[level]
  /\ \A p \in net : p.from \in Role /\ p.level \in Level

(* The configurations under which a handshake is meant to succeed.         *)
resumes == cfg.ticket /\ cfg.tek = "current"
compatible == cfg.alpn /\ cfg.tek # "none" /\ (resumes \/ cfg.trusted) /\ ~cfg.shared

(* The PSK the client derives from a NewSessionTicket is the one the       *)
(* server sealed in it, so the next connection can resume.                 *)
TicketAgreement ==
  conn[Client].setup.sessionPSK # NoKeys =>
    /\ conn[Server].out["1RTT"] # <<>>
    /\ conn[Client].setup.sessionPSK = Last(conn[Server].out["1RTT"]).body

(* When both ends consider the handshake done they have the same view of   *)
(* it: the transcript, whether the PSK was used, whether 0-RTT was         *)
(* accepted, and the 1-RTT keys (completeClientFlight against the          *)
(* Finished branch of handleOneServer), and so on the ticket that follows. *)
HandshakeAgreement ==
  LET c == conn[Client].setup
      s == conn[Server].setup
  IN  /\ c.handshakeDone /\ s.handshakeDone =>
           /\ c.hs.transcript = s.hs.transcript
           /\ c.oneRTT = s.oneRTT
           /\ c.hs.pskMode = (s.hs.selectedPSK # NoPSK)
           /\ c.hs.earlyDataAccepted = s.hs.acceptedEarlyData
      /\ TicketAgreement

(* What the dialer is told about its 0-RTT data is what happened to it: if *)
(* its 0-RTT streams were reset (Err0RTTRejected) the server delivered     *)
(* none of the data, and a client that sent 0-RTT data and finished the    *)
(* handshake without it being accepted did reset them.                     *)
EarlyDataFate ==
  LET c == conn[Client]
      sentEarly == \E p \in net : p.level = "0RTT"
  IN  /\ c.reset0RTT => "0RTT" \notin conn[Server].delivered
      /\ c.handshakeComplete /\ sentEarly /\ ~c.setup.hs.earlyDataAccepted => c.reset0RTT

(* 1-RTT data reaches an application only from an authenticated peer: on   *)
(* the server after a client Finished over the server's own transcript, on *)
(* the client after a CertificateVerify or under the ticket's PSK.  This   *)
(* is what the gate in Get1RTTOpener is for.                               *)
AuthenticatedDelivery ==
  /\ "1RTT" \in conn[Server].delivered =>
       conn[Server].setup.hs.phase = "AfterClientFinished"
  /\ "1RTT" \in conn[Client].delivered =>
       /\ conn[Client].setup.hs.phase = "AfterServerFinished"
       /\ conn[Client].setup.hs.verifiedCert \/ conn[Client].setup.hs.pskMode



(* The assertion of tryQueueingUndecryptablePacket: "shouldn't queue       *)
(* undecryptable packets after handshake completion".                      *)
NoQueueingAfterCompletion == \A e \in Role : conn[e].status # "panicked"

(* HandleMessage is fed "reassembled CRYPTO-stream bytes": how a sender    *)
(* cuts its messages into frames cannot make a compatible handshake fail.  *)
CutsDoNotMatter == compatible => \A e \in Role : conn[e].status # "failed"

(* Zero wipes the PSK "copied from ClientConfig": another connection made  *)
(* from that configuration still derives the server's handshake secret.    *)
PSKOutlivesOtherClose ==
  conn[Client].setup.hs.pskMode =>
    conn[Client].setup.hs.hsSecret = conn[Server].setup.hs.hsSecret
=============================================================================
