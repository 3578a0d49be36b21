---------------------------- MODULE PacketPacker ---------------------------
(***************************************************************************)
(* What goes into the packets of a connection (packet_packer.go), where    *)
(* the frames come from and where lost ones go (retransmission_queue.go),  *)
(* and the probe packets of the connection (Conn.sendProbePacket).  The    *)
(* sources (CRYPTO streams, retransmission queues, acknowledgments,        *)
(* control frames and stream data of the framer, datagrams) are one record *)
(* src; a packing operator maps it to [src, pl], pl being the payload.     *)
(* Lengths are small numbers that keep the proportions of the real ones: a *)
(* packet that may be coalesced has room for a header, an ACK and a frame. *)
(***************************************************************************)
EXTENDS Integers, Sequences, FiniteSets, SequencesExt, FiniteSetsExt

CONSTANTS MaxSize, LongHeader, ShortHeader, Overhead, MinPayload,
          CryptoHeader, StreamHeader, AckLen, PingLen, ControlLen, CloseLen,
          MinCoalescedPacketSize, MinStreamFrameSize, MaxNonAckElicitingAcks,
          Scenarios

VARIABLES sc,        (* perspective, early (0-RTT), what the application and the peer do *)
          keys,      (* per encryption level: "no", "yes" or "dropped" *)
          confirmed, (* handshakeConfirmed *)
          src,
          inflight,  (* the packets that wait for an acknowledgment, oldest first *)
          acked,     (* frames that were acknowledged *)
          left,      (* what the application and the peer may still do *)
          last,      (* the last datagram: its packets, its size and what it is for *)
          ackRun,    (* 1-RTT packets with nothing but an ACK since one with more *)
          err

vars == <<sc, keys, confirmed, src, inflight, acked, left, last, ackRun, err>>

Levels == {"Initial", "Handshake", "0RTT", "1RTT"}
CryptoLevels == {"Initial", "Handshake"}
Space(level) == IF level \in CryptoLevels THEN level ELSE "App"
Header(level) == IF level = "1RTT" THEN ShortHeader ELSE LongHeader

Crypto(level, off, n) == [t |-> "crypto", lvl |-> level, id |-> off, n |-> n]
Frame(t, id) == [t |-> t, lvl |-> "App", id |-> id, n |-> 1]
Ping == Frame("ping", 0)
FrameLen(f) ==
  CASE f.t = "crypto" -> CryptoHeader + f.n
    [] f.t = "data" -> StreamHeader + f.n
    [] f.t \in {"datagram", "close"} -> f.n
    [] f.t = "ping" -> PingLen
    [] OTHER -> ControlLen
Lengths(fs) == FoldSeq(LAMBDA f, sum : sum + FrameLen(f), 0, fs)

Payload(ack, frames) == [ack |-> ack, frames |-> frames]
Nothing == Payload(FALSE, <<>>)
PayloadLen(pl) == (IF pl.ack THEN AckLen ELSE 0) + Lengths(pl.frames)
AckEliciting(pl) == \E i \in DOMAIN pl.frames : pl.frames[i].t # "close"
(* Tiny payloads are padded, so that the header can be protected.          *)
PacketLength(level, pl) == Header(level) + Max({PayloadLen(pl), MinPayload}) + Overhead
Res(s, pl) == [src |-> s, pl |-> pl]

Init ==
  /\ sc \in Scenarios
  /\ keys = [l \in Levels |-> IF l = "Initial" \/ (l = "0RTT" /\ sc.early) THEN "yes" ELSE "no"]
  /\ confirmed = FALSE
  /\ src = [crypto |-> [l \in CryptoLevels |-> [off |-> 0, n |-> 0]],
            rq |-> [s \in {"Initial", "Handshake", "App"} |-> [crypto |-> <<>>, other |-> <<>>]],
            ack |-> [s \in {"Initial", "Handshake", "App"} |-> "none"],
            ctl |-> <<>>, data |-> 0, dgs |-> <<>>, nonAck |-> 0]
  /\ inflight = <<>> /\ acked = {}
  /\ left = [crypto |-> sc.crypto, ctl |-> sc.ctl, data |-> sc.data, dgs |-> sc.dgs, rcv |-> sc.rcv, lose |-> sc.lose, probe |-> sc.probe]
  /\ last = [pkts |-> <<>>, size |-> 0, what |-> "none"]
  /\ ackRun = 0 /\ err = "none"

----------------------------------------------------------------------------
(* The retransmission queue.                                               *)

(* The first CRYPTO frame, split if it has to be, or else the first other  *)
(* frame, if it fits: [q, f], f being empty or one frame.                  *)
GetFrame(q, maxLen) ==
  LET f == Head(q.crypto)
      n == maxLen - CryptoHeader
  IN IF q.crypto # <<>> /\ FrameLen(f) <= maxLen THEN [q |-> [q EXCEPT !.crypto = Tail(@)], f |-> <<f>>]
     ELSE IF q.crypto # <<>> /\ n > 0
     THEN [q |-> [q EXCEPT !.crypto = <<[f EXCEPT !.id = @ + n, !.n = @ - n]>> \o Tail(@)], f |-> <<[f EXCEPT !.n = n]>>]
     ELSE IF q.other # <<>> /\ FrameLen(Head(q.other)) <= maxLen
     THEN [q |-> [q EXCEPT !.other = Tail(@)], f |-> <<Head(q.other)>>]
     ELSE [q |-> q, f |-> <<>>]

(* Frames as long as they fit and at least minLen is left.                 *)
Before(fs, more) == [q |-> more.q, fs |-> fs \o more.fs]
RECURSIVE GetFrames(_, _, _)
GetFrames(q, maxLen, minLen) ==
  LET g == GetFrame(q, maxLen)
  IN IF maxLen < minLen \/ g.f = <<>> THEN [q |-> q, fs |-> <<>>]
     ELSE Before(g.f, GetFrames(g.q, maxLen - FrameLen(g.f[1]), minLen))

HasRetransmission(s, space) == s.rq[space].crypto # <<>> \/ s.rq[space].other # <<>>

(* The handler of a lost frame puts it into the queue of its level; stream *)
(* data goes back to its stream; datagrams, pings and path responses have  *)
(* no handler.                                                             *)
OnLost(s, f) ==
  CASE f.t = "crypto" -> [s EXCEPT !.rq[f.lvl].crypto = Append(@, f)]
    [] f.t \in {"control", "blocked"} -> [s EXCEPT !.rq["App"].other = Append(@, f)]
    [] f.t = "data" -> [s EXCEPT !.data = @ + f.n]
    [] OTHER -> s
queueFramesForRetransmission(s, fs) == FoldSeq(LAMBDA f, acc : OnLost(acc, f), s, fs)

----------------------------------------------------------------------------
(* Payloads.                                                               *)

(* The spaces of the handshake acknowledge at once; that of the data once  *)
(* an ACK is queued, or together with something else.                      *)
HasAck(s, space, onlyIfQueued) ==
  s.ack[space] = "queued" \/ (s.ack[space] = "new" /\ (space # "App" \/ ~onlyIfQueued))
GetAck(s, space, has) == IF has THEN [s EXCEPT !.ack[space] = "none"] ELSE s

OnlyAck(s, space) == Res(GetAck(s, space, HasAck(s, space, TRUE)), Payload(HasAck(s, space, TRUE), <<>>))

HasCryptoData(s, level) == s.crypto[level].n > 0
PopCryptoFrame(s, level, maxLen) ==
  LET c == s.crypto[level]
      n == Min({maxLen - CryptoHeader, c.n})
  IN IF n <= 0 THEN [src |-> s, fs |-> <<>>]
     ELSE [src |-> [s EXCEPT !.crypto[level] = [off |-> c.off + n, n |-> c.n - n]], fs |-> <<Crypto(level, c.off, n)>>]

Requeued(s, level, ack, g) == Res([s EXCEPT !.rq[level] = g.q], Payload(ack, g.fs))
Popped(ack, c) == Res(c.src, Payload(ack, c.fs))

(* CRYPTO data is popped beside a retransmission, and not put anywhere.    *)
CryptoFramesBoth(s, level, room, ack, addPing) ==
  LET free == room - (IF ack THEN AckLen ELSE 0)
  IN IF HasRetransmission(s, level) THEN Requeued(PopCryptoFrame(s, level, free).src, level, ack, GetFrames(s.rq[level], free, 0))
     ELSE IF HasCryptoData(s, level) THEN Popped(ack, PopCryptoFrame(s, level, free))
     ELSE Res(s, Payload(ack, IF addPing /\ ~ack THEN <<Ping>> ELSE <<>>))

(* Retransmissions before new data, an ACK beside either.                  *)
CryptoFrames(s, level, room, ack, addPing) ==
  LET free == room - (IF ack THEN AckLen ELSE 0)
  IN IF HasRetransmission(s, level) THEN Requeued(s, level, ack, GetFrames(s.rq[level], free, 0))
     ELSE IF HasCryptoData(s, level) THEN Popped(ack, PopCryptoFrame(s, level, free))
     ELSE Res(s, Payload(ack, IF addPing /\ ~ack THEN <<Ping>> ELSE <<>>))

maybeGetCryptoPacket(s, level, maxPacketSize, addPing, onlyAck) ==
  LET has == HasAck(s, level, FALSE)
  IN IF onlyAck THEN OnlyAck(s, level)
     ELSE CryptoFrames(GetAck(s, level, has), level, maxPacketSize - LongHeader, has, addPing)

(* The datagram at the head of the queue goes in if it fits; it is dropped *)
(* if it does not, unless an ACK takes the room.                           *)
AddDatagram(r, room) ==
  IF r.src.dgs = <<>> THEN r
  ELSE IF Head(r.src.dgs) <= room - PayloadLen(r.pl)
       THEN Res([r.src EXCEPT !.dgs = Tail(@)], [r.pl EXCEPT !.frames = Append(@, [Frame("datagram", 0) EXCEPT !.n = Head(r.src.dgs)])])
       ELSE IF r.pl.ack THEN r ELSE Res([r.src EXCEPT !.dgs = Tail(@)], r.pl)

WithFrames(r, g) == Res([r.src EXCEPT !.rq["App"] = g.q], [r.pl EXCEPT !.frames = @ \o g.fs])
AddRetransmissions(r, has, room) ==
  IF has THEN WithFrames(r, GetFrames(r.src.rq["App"], room - PayloadLen(r.pl), MinStreamFrameSize)) ELSE r

(* framer.Append: control frames as long as they fit, then stream data.    *)
AddStreamData(r, n) ==
  IF n <= 0 THEN r ELSE Res([r.src EXCEPT !.data = @ - n], [r.pl EXCEPT !.frames = Append(@, [Frame("data", 0) EXCEPT !.n = n])])
AddControlFrames(r, k) == Res([r.src EXCEPT !.ctl = SubSeq(@, k + 1, Len(@))], [r.pl EXCEPT !.frames = @ \o SubSeq(r.src.ctl, 1, k)])
AppendFrames(r, k, free) ==
  AddStreamData(AddControlFrames(r, k), IF free - k * ControlLen < MinStreamFrameSize THEN 0
                                  ELSE Min({r.src.data, free - k * ControlLen - StreamHeader}))
AddFramerData(r, has, room) ==
  LET free == room - PayloadLen(r.pl)
  IN IF has THEN AppendFrames(r, Min({Len(r.src.ctl), Max({0, free \div ControlLen})}), free) ELSE r

HasFramerData(s) == s.ctl # <<>> \/ s.data > 0

composeNextPacket(s, room, onlyAck, ackAllowed) ==
  LET hasData == HasFramerData(s)
      hasRetransmission == HasRetransmission(s, "App")
      ack == ackAllowed /\ HasAck(s, "App", ~hasRetransmission /\ ~hasData)
  IN IF onlyAck THEN OnlyAck(s, "App")
     ELSE AddFramerData(AddRetransmissions(AddDatagram(Res(GetAck(s, "App", ack), Payload(ack, <<>>)), room), hasRetransmission, room),
                        hasData, room)

(* A packet with nothing but an ACK gets a PING once there were too many   *)
(* of them.                                                                *)
CountAcks(r) ==
  IF r.pl.frames # <<>> THEN Res([r.src EXCEPT !.nonAck = 0], r.pl)
  ELSE IF ~r.pl.ack THEN r
  ELSE IF r.src.nonAck >= MaxNonAckElicitingAcks
  THEN Res([r.src EXCEPT !.nonAck = 0], Payload(TRUE, <<Ping>>))
  ELSE Res([r.src EXCEPT !.nonAck = @ + 1], r.pl)

maybeGetAppDataPacket(s, level, maxPacketSize, onlyAck) ==
  CountAcks(composeNextPacket(s, maxPacketSize - Header(level) - Overhead, onlyAck, level = "1RTT"))

----------------------------------------------------------------------------
(* Packets and datagrams.                                                  *)

Packet(level, pl) == [lvl |-> level, pl |-> pl]
Pack(level, r) == IF PayloadLen(r.pl) = 0 THEN <<>> ELSE <<Packet(level, r.pl)>>
Packed(level, r) == [src |-> r.src, pkts |-> Pack(level, r)]
Added(pkts, level, r) == [src |-> r.src, pkts |-> pkts \o Pack(level, r)]
Size(pkts) == FoldSeq(LAMBDA p, sum : sum + PacketLength(p.lvl, p.pl), 0, pkts)

AppLevel == IF keys["1RTT"] = "yes" THEN "1RTT" ELSE "0RTT"
Skip(s) == Res(s, Nothing)

(* Each level adds its packet to what is there, if there is room: [src,    *)
(* pkts].                                                                  *)
WithInitial(s, onlyAck) ==
  Packed("Initial", IF keys["Initial"] = "yes" THEN maybeGetCryptoPacket(s, "Initial", MaxSize - Overhead, FALSE, onlyAck) ELSE Skip(s))
MayCoalesce(pkts, onlyAck) == IF onlyAck THEN pkts = <<>> ELSE Size(pkts) < MaxSize - MinCoalescedPacketSize
WithHandshake(a, onlyAck) ==
  Added(a.pkts, "Handshake",
        IF keys["Handshake"] = "yes" /\ MayCoalesce(a.pkts, onlyAck)
        THEN maybeGetCryptoPacket(a.src, "Handshake", MaxSize - Size(a.pkts) - Overhead, FALSE, onlyAck) ELSE Skip(a.src))
WithAppData(a, onlyAck) ==
  LET may == keys[AppLevel] = "yes" /\ ~(AppLevel = "0RTT" /\ (onlyAck \/ sc.server)) /\ MayCoalesce(a.pkts, onlyAck)
  IN Added(a.pkts, AppLevel, IF may THEN maybeGetAppDataPacket(a.src, AppLevel, MaxSize - Size(a.pkts), onlyAck) ELSE Skip(a.src))

PackCoalescedPacket(s, onlyAck) == WithAppData(WithHandshake(WithInitial(s, onlyAck), onlyAck), onlyAck)

PackShort(s, onlyAck) ==
  Packed("1RTT", maybeGetAppDataPacket(s, "1RTT", MaxSize, onlyAck))

(* A client pads every datagram with an Initial, a server if it elicits an *)
(* acknowledgment.                                                         *)
Padded(pkts) ==
  pkts # <<>> /\ pkts[1].lvl = "Initial" /\ (sc.server => AckEliciting(pkts[1].pl))
DatagramSize(pkts) == IF Padded(pkts) /\ Size(pkts) < MaxSize THEN MaxSize ELSE Size(pkts)

(* The packets that wait for an acknowledgment, once pkts are sent.  On    *)
(* the client Initial keys go with the first Handshake packet.             *)
Tracked(pkts) == SelectSeq(pkts, LAMBDA p : AckEliciting(p.pl))
DropsInitial(pkts) == ~sc.server /\ keys["Initial"] = "yes" /\ \E i \in DOMAIN pkts : pkts[i].lvl = "Handshake"
Without(ps, level) == SelectSeq(ps, LAMBDA p : p.lvl # level)
AfterSending(ps, pkts) ==
  IF DropsInitial(pkts) THEN Without(ps \o Tracked(pkts), "Initial") ELSE ps \o Tracked(pkts)

RunOfAcks(pkts) ==
  IF pkts = <<>> \/ Last(pkts).lvl # "1RTT" THEN ackRun ELSE IF AckEliciting(Last(pkts).pl) THEN 0 ELSE ackRun + 1

Sent(r, ps, what) ==
  /\ src' = IF DropsInitial(r.pkts) THEN [r.src EXCEPT !.ack["Initial"] = "none"] ELSE r.src
  /\ IF Size(r.pkts) > MaxSize THEN err' = "packet too large" /\ UNCHANGED <<keys, inflight, last, ackRun>>
     ELSE /\ inflight' = AfterSending(ps, r.pkts)
          /\ keys' = IF DropsInitial(r.pkts) THEN [keys EXCEPT !["Initial"] = "dropped"] ELSE keys
          /\ last' = [pkts |-> r.pkts, size |-> DatagramSize(r.pkts), what |-> what]
          /\ ackRun' = RunOfAcks(r.pkts)
          /\ UNCHANGED err
  /\ UNCHANGED <<sc, confirmed, acked>>

SendResult(r) ==
  /\ r.pkts # <<>>
  /\ Sent(r, inflight, "any") /\ UNCHANGED left

(* A datagram of what there is, or with onlyAck of one ACK (the congestion *)
(* controller allows no more).                                             *)
Send(onlyAck) ==
  /\ err = "none"
  /\ SendResult(IF confirmed THEN PackShort(src, onlyAck) ELSE PackCoalescedPacket(src, onlyAck))

----------------------------------------------------------------------------
(* Probe packets.                                                          *)

OrPing(r, addPing) == IF PayloadLen(r.pl) = 0 /\ addPing THEN Res(r.src, Payload(FALSE, <<Ping>>)) ELSE r
PackPTOProbePacket(s, level, addPing) ==
  Packed(level, IF level = "1RTT" THEN OrPing(maybeGetAppDataPacket(s, level, MaxSize, FALSE), addPing)
                ELSE maybeGetCryptoPacket(s, level, MaxSize - Overhead, addPing, FALSE))

(* QueueProbePacket takes the oldest packet of the space for lost, until   *)
(* there is something to send or none is left; if there is nothing to      *)
(* send then, a PING is.  An ACK alone is no probe: SendMode still asks    *)
(* for one, and the next round has no ACK.                                 *)
FirstOutstanding(ps, space) == SelectInSeq(ps, LAMBDA p : Space(p.lvl) = space)
RECURSIVE sendProbePacket(_, _, _)
Tried(r, ps, level, ping) ==
  IF (r.pkts = <<>> /\ ~ping) \/ (r.pkts # <<>> /\ ~AckEliciting(r.pkts[1].pl)) THEN sendProbePacket(r.src, ps, level)
  ELSE [src |-> r.src, inflight |-> ps, pkts |-> r.pkts]
sendProbePacket(s, ps, level) ==
  LET i == FirstOutstanding(ps, Space(level))
  IN IF i = 0 THEN Tried(PackPTOProbePacket(s, level, TRUE), ps, level, TRUE)
     ELSE Tried(PackPTOProbePacket(queueFramesForRetransmission(s, ps[i].pl.frames), level, FALSE), RemoveAt(ps, i), level, FALSE)

ProbeDue(level) ==
  /\ keys[level] = "yes"
  /\ \/ FirstOutstanding(inflight, Space(level)) # 0 /\ (level = "1RTT" => confirmed)
     (* a client whose server may be blocked probes without packets in flight *)
     \/ ~sc.server /\ ~confirmed /\ FirstOutstanding(inflight, "Initial") = 0 /\ FirstOutstanding(inflight, "Handshake") = 0
          /\ level = (IF keys["Handshake"] = "yes" THEN "Handshake" ELSE "Initial")

ProbeResult(r) ==
  IF r.pkts = <<>>
  THEN err' = "couldn't pack probe packet" /\ UNCHANGED <<sc, keys, confirmed, src, inflight, acked, last, ackRun>>
  ELSE Sent(r, r.inflight, "probe")

Probe(level) ==
  /\ err = "none" /\ left.probe > 0 /\ ProbeDue(level)
  /\ left' = [left EXCEPT !.probe = @ - 1]
  /\ ProbeResult(sendProbePacket(src, inflight, level))

----------------------------------------------------------------------------
(* CONNECTION_CLOSE in one packet per level with keys; the reason of an    *)
(* application error only where the application's packets go.              *)

CloseFrame(level, isApplicationError, reason) ==
  [Frame("close", 0) EXCEPT !.n = CloseLen + (IF isApplicationError /\ level \in CryptoLevels THEN 0 ELSE reason)]
packConnectionClose(isApplicationError, reason) ==
  LET levels == SelectSeq(<<"Initial", "Handshake", "0RTT", "1RTT">>, LAMBDA l : keys[l] = "yes" /\ ~(sc.server /\ l = "0RTT"))
  IN [i \in DOMAIN levels |-> Packet(levels[i], Payload(FALSE, <<CloseFrame(levels[i], isApplicationError, reason)>>))]

CloseConnection(isApplicationError, reason) ==
  /\ err = "none"
  /\ LET pkts == packConnectionClose(isApplicationError, reason)
     IN IF Size(pkts) > MaxSize THEN err' = "close not sent" /\ UNCHANGED last
        ELSE err' = "closed" /\ last' = [pkts |-> pkts, size |-> DatagramSize(pkts), what |-> "close"]
  /\ UNCHANGED <<sc, keys, confirmed, src, inflight, acked, left, ackRun>>

----------------------------------------------------------------------------
(* The handshake, the application, the peer and the network.               *)

Quiet == UNCHANGED <<sc, last, ackRun, err>>

WriteCrypto(level) ==
  /\ err = "none" /\ left.crypto[level] > 0 /\ keys[level] = "yes"
  /\ src' = [src EXCEPT !.crypto[level].n = @ + left.crypto[level]]
  /\ left' = [left EXCEPT !.crypto[level] = 0]
  /\ Quiet /\ UNCHANGED <<keys, confirmed, inflight, acked>>

(* A server has the keys of all levels once it has the ClientHello; a      *)
(* client gets the 1-RTT keys with the end of the server's flight, and     *)
(* forgets the 0-RTT keys then.                                            *)
HandshakeKeys ==
  /\ err = "none" /\ keys["Handshake"] = "no"
  /\ keys' = [keys EXCEPT !["Handshake"] = "yes", !["1RTT"] = IF sc.server THEN "yes" ELSE @]
  /\ Quiet /\ UNCHANGED <<confirmed, src, inflight, acked, left>>

OneRTTKeys ==
  /\ err = "none" /\ keys["Handshake"] = "yes" /\ keys["1RTT"] = "no"
  /\ keys' = [keys EXCEPT !["1RTT"] = "yes", !["0RTT"] = IF @ = "yes" THEN "dropped" ELSE @]
  /\ Quiet /\ UNCHANGED <<confirmed, src, inflight, acked, left>>

DropKeys(level) ==
  /\ keys' = [keys EXCEPT ![level] = "dropped"]
  /\ inflight' = Without(inflight, level)
  /\ src' = [src EXCEPT !.ack[level] = "none"]

DropInitial ==
  /\ err = "none" /\ sc.server /\ keys["Initial"] = "yes" /\ keys["Handshake"] = "yes"
  /\ DropKeys("Initial")
  /\ Quiet /\ UNCHANGED <<confirmed, acked, left>>

Confirm ==
  /\ err = "none" /\ ~confirmed /\ keys["1RTT"] = "yes" /\ keys["Initial"] = "dropped"
  /\ confirmed' = TRUE
  /\ DropKeys("Handshake")
  /\ Quiet /\ UNCHANGED <<acked, left>>

(* The server rejects 0-RTT: what was sent is forgotten, and the framer    *)
(* drops what speaks of the old streams.                                   *)
Reject0RTT ==
  /\ err = "none" /\ keys["0RTT"] = "yes" /\ keys["Handshake"] = "yes"
  /\ keys' = [keys EXCEPT !["0RTT"] = "dropped"]
  /\ inflight' = Without(inflight, "0RTT")
  /\ src' = [src EXCEPT !.ctl = SelectSeq(@, LAMBDA f : f.t # "blocked"), !.data = 0]
  /\ Quiet /\ UNCHANGED <<confirmed, acked, left>>

(* A Retry: all that was sent is sent again.                               *)
ResetForRetry ==
  /\ err = "none" /\ sc.retry /\ left.lose > 0 /\ ~sc.server /\ keys["Handshake"] = "no" /\ inflight # <<>>
  /\ left' = [left EXCEPT !.lose = @ - 1]
  /\ src' = FoldSeq(LAMBDA p, s : queueFramesForRetransmission(s, p.pl.frames), src, inflight)
  /\ inflight' = <<>>
  /\ Quiet /\ UNCHANGED <<keys, confirmed, acked>>

AddControl ==
  /\ err = "none" /\ left.ctl # <<>> /\ (keys["1RTT"] = "yes" \/ (keys["0RTT"] = "yes" /\ Head(left.ctl) = "blocked"))
  /\ src' = [src EXCEPT !.ctl = Append(@, Frame(Head(left.ctl), Len(left.ctl)))]
  /\ left' = [left EXCEPT !.ctl = Tail(@)]
  /\ Quiet /\ UNCHANGED <<keys, confirmed, inflight, acked>>

AddData ==
  /\ err = "none" /\ left.data > 0 /\ (keys["0RTT"] = "yes" \/ keys["1RTT"] = "yes")
  /\ src' = [src EXCEPT !.data = @ + left.data]
  /\ left' = [left EXCEPT !.data = 0]
  /\ Quiet /\ UNCHANGED <<keys, confirmed, inflight, acked>>

SendDatagram ==
  /\ err = "none" /\ left.dgs # <<>> /\ (keys["0RTT"] = "yes" \/ keys["1RTT"] = "yes")
  /\ src' = [src EXCEPT !.dgs = Append(@, Head(left.dgs))]
  /\ left' = [left EXCEPT !.dgs = Tail(@)]
  /\ Quiet /\ UNCHANGED <<keys, confirmed, inflight, acked>>

(* A packet is received in a space: something to acknowledge.              *)
ReceivedPacket(space, state) ==
  /\ err = "none" /\ left.rcv > 0
  /\ (IF space = "App" THEN keys["1RTT"] ELSE keys[space]) = "yes"
  /\ state = "new" => space = "App" /\ src.ack[space] = "none"
  /\ left' = [left EXCEPT !.rcv = @ - 1]
  /\ src' = [src EXCEPT !.ack[space] = state]
  /\ Quiet /\ UNCHANGED <<keys, confirmed, inflight, acked>>

(* The peer acknowledges 0-RTT packets with its 1-RTT keys.                *)
Answered(p) == p.lvl \in CryptoLevels \/ keys["1RTT"] = "yes"

Acked(i) ==
  /\ err = "none" /\ Answered(inflight[i])
  /\ acked' = acked \cup ToSet(inflight[i].pl.frames)
  /\ inflight' = RemoveAt(inflight, i)
  /\ Quiet /\ UNCHANGED <<keys, confirmed, src, left>>

Lost(i) ==
  /\ err = "none" /\ left.lose > 0 /\ Answered(inflight[i])
  /\ left' = [left EXCEPT !.lose = @ - 1]
  /\ src' = queueFramesForRetransmission(src, inflight[i].pl.frames)
  /\ inflight' = RemoveAt(inflight, i)
  /\ Quiet /\ UNCHANGED <<keys, confirmed, acked>>

Handshaking == HandshakeKeys \/ OneRTTKeys \/ DropInitial \/ Confirm \/ Reject0RTT \/ ResetForRetry
Feeding == (\E l \in CryptoLevels : WriteCrypto(l)) \/ AddControl \/ AddData \/ SendDatagram
Receiving == \E space \in {"Initial", "Handshake", "App"}, state \in {"new", "queued"} : ReceivedPacket(space, state)
Packing == (\E b \in BOOLEAN : Send(b)) \/ \E l \in Levels \ {"0RTT"} : Probe(l)
Network == \E i \in DOMAIN inflight : Acked(i) \/ Lost(i)
Closing == \E b \in BOOLEAN, reason \in sc.reasons : CloseConnection(b, reason)

Next == Handshaking \/ Feeding \/ Receiving \/ Packing \/ Network \/ Closing

Spec == Init /\ [][Next]_vars

----------------------------------------------------------------------------
(* Properties.                                                             *)

(* Every retransmission and every datagram is one of the frames that were  *)
(* given to the packer, and the counters stay in their bounds.             *)
TypeOK ==
  /\ \A l \in CryptoLevels : src.crypto[l].n >= 0 /\ src.crypto[l].off + src.crypto[l].n + left.crypto[l] = sc.crypto[l]
  /\ src.data \in 0..sc.data /\ src.nonAck \in 0..MaxNonAckElicitingAcks
  /\ \A i \in DOMAIN inflight : inflight[i].pl.frames # <<>> /\ keys[inflight[i].lvl] # "no"

(* No frame that has to arrive is forgotten: every byte of a CRYPTO        *)
(* stream that was written, while the level has its keys, and every        *)
(* control frame of the new connection waits to be sent, is in flight,     *)
(* waits in the retransmission queue or was acknowledged, whatever is      *)
(* lost, probed for, split, or sent again after a Retry.                   *)
Carried(f) ==
  acked \cup UNION {ToSet(inflight[i].pl.frames) : i \in DOMAIN inflight} \cup f
CoversByte(fs, level, b) == \E f \in fs : f.t = "crypto" /\ f.lvl = level /\ b \in f.id..(f.id + f.n - 1)
NothingForgotten ==
  err = "none" =>
    /\ \A l \in CryptoLevels : keys[l] = "yes" =>
         \A b \in 0..(src.crypto[l].off - 1) : CoversByte(Carried(ToSet(src.rq[l].crypto)), l, b)
    /\ \A i \in (Len(left.ctl) + 1)..Len(sc.ctl) : sc.ctl[Len(sc.ctl) + 1 - i] = "control" =>
         Frame("control", i) \in Carried(ToSet(src.ctl) \cup ToSet(src.rq["App"].other))

(* What is packed fits: the room the packets of a datagram leave to the    *)
(* next one, an ACK beside retransmissions, split CRYPTO frames and padded *)
(* tiny payloads never add up to more than the packet size ("packet too    *)
(* large" closes the connection).                                          *)
DatagramFits == err # "packet too large" /\ last.size <= MaxSize

(* When a probe is due there is one: either a frame is sent again, or a    *)
(* PING is, even if the oldest packets held nothing that is ever sent      *)
(* again ("couldn't pack probe packet" closes the connection).             *)
ProbePacked ==
  /\ err # "couldn't pack probe packet"
  /\ last.what = "probe" => AckEliciting(last.pkts[1].pl)

(* A peer is not left with packets it need not acknowledge: after          *)
(* MaxNonAckElicitingAcks packets with only an ACK, whether sent alone,    *)
(* coalesced or by a probe, the next elicits one.                          *)
AcksGetAcked == ackRun <= MaxNonAckElicitingAcks

(* What a level may carry: 0-RTT packets no ACK and no CRYPTO frame, the   *)
(* packets of the handshake nothing of the application, and a datagram     *)
(* with an Initial that elicits an acknowledgment (any, from a client) has *)
(* full size.                                                              *)
LegalPackets ==
  /\ \A i \in DOMAIN last.pkts :
       /\ last.pkts[i].lvl = "0RTT" => ~last.pkts[i].pl.ack
       /\ \A j \in DOMAIN last.pkts[i].pl.frames :
            LET f == last.pkts[i].pl.frames[j]
            IN f.t \notin {"ping", "close"} => (f.t = "crypto" <=> last.pkts[i].lvl \in CryptoLevels)
       /\ last.pkts[i].lvl = "Initial" /\ (sc.server => AckEliciting(last.pkts[i].pl)) => last.size = MaxSize

(* "The error string will be sent to the peer" (Conn.CloseWithError): a    *)
(* connection that is closed says so to its peer.                          *)
CloseSent == err # "close not sent"

(* After 0-RTT was rejected no frame about the old streams is sent: the    *)
(* framer drops them (framer.Handle0RTTRejection), wherever they wait.     *)
StaleFramesGone ==
  ~sc.server /\ keys["0RTT"] = "dropped" /\ keys["1RTT"] = "no" =>
    \A i \in DOMAIN src.rq["App"].other : src.rq["App"].other[i].t # "blocked"

(* Every datagram fits and is legal, and nothing taken for it is lost      *)
(* (packetPacker).                                                         *)
PacketsSound ==
  /\ TypeOK
  /\ NothingForgotten
  /\ DatagramFits
  /\ ProbePacked
  /\ AcksGetAcked
  /\ LegalPackets
=============================================================================
