---------------------------- MODULE LossRecovery ----------------------------
(***************************************************************************)
(* One endpoint's loss recovery at work: the connection sends packets as   *)
(* SendMode allows, the peer acknowledges any packets it may have got, in  *)
(* any order, timers fire late, encryption levels come and go, a Retry     *)
(* arrives, and the connection moves to another path.                      *)
(***************************************************************************)
EXTENDS RenoSender, Sequences, SequencesExt, FiniteSets, Bags

(***************************************************************************)
(* Loss recovery (sent_packet_handler.go, packet_number_generator.go): the *)
(* packets sent, acknowledgements, loss detection by packet and by time    *)
(* threshold, the probe timeout, spurious losses, the amplification limit. *)
(* A handler h is a record; every operator returns the handler after a     *)
(* call.  A time of 0 is the zero time.  Estimates of the RTT are          *)
(* constants here (RTTStats models how they are made), a packet has size   *)
(* 1, and ECN is off (ECNTracker models it).  onAcked and onLost count the *)
(* calls of the frame handlers of every ack-eliciting packet.              *)
(***************************************************************************)
(***************************************************************************)
(* The sender's record of the packets it sent (sent_packet_history.go,     *)
(* lost_packet_tracker.go): a slice with a slot for every packet number    *)
(* from the first one that is still tracked on.  A slot is emptied when    *)
(* its packet is acknowledged or lost, and empty slots at the start are    *)
(* cut off.  All encryption levels share the packet numbers.               *)
(***************************************************************************)
CONSTANTS MaxSkippedPackets,     \* skipped packet numbers remembered
          MaxTrackedLostPackets  \* lost packets remembered

InvalidPN == -1

(* A packet; kind is "ack" (not ack-eliciting), "data", "mtu" (a path MTU  *)
(* probe) or "probe" (sent on another path).                               *)
Packet(time, level, kind, inFlight) == [time |-> time, level |-> level, kind |-> kind, inFlight |-> inFlight]
NoPacket == [kind |-> "none"]

Outstanding(p) == p.kind = "data"
IsAckEliciting(p) == p.kind \in {"data", "mtu"}

newSentPacketHistory ==
  [packets |-> <<>>, probes |-> <<>>, skipped |-> <<>>, num |-> 0, first |-> InvalidPN, highest |-> InvalidPN]

checkPacketNumberUse(hist, pn) ==
  [hist EXCEPT !.packets = IF @ = <<>> THEN @ ELSE @ \o [i \in 1 .. pn - hist.highest - 1 |-> NoPacket],
               !.highest = pn,
               !.first = IF hist.packets = <<>> THEN pn ELSE @]

SkippedPacket(hist, pn) ==
  [hist EXCEPT !.skipped = Append(IF Len(@) = MaxSkippedPackets THEN Tail(@) ELSE @, pn)]

SentPacketHist(hist, pn, p) ==
  LET h == checkPacketNumberUse(hist, pn)
  IN [h EXCEPT !.packets = Append(@, p), !.num = @ + (IF Outstanding(p) THEN 1 ELSE 0)]

SentPathProbePacket(hist, pn, p) ==
  LET h == checkPacketNumberUse(hist, pn)
  IN [h EXCEPT !.packets = Append(@, Packet(0, p.level, "probe", FALSE)), !.probes = Append(@, <<pn, p>>)]

(* The numbers of the packets tracked, and the packet with number pn.      *)
Packets(hist) == {hist.first + i - 1 : i \in {j \in DOMAIN hist.packets : hist.packets[j] # NoPacket}}
PacketAt(hist, pn) == hist.packets[pn - hist.first + 1]
Ascending(pns) == [i \in 1 .. Cardinality(pns) |-> CHOOSE x \in pns : Cardinality({y \in pns : y <= x}) = i]

cleanupStart(hist) ==
  IF \A i \in DOMAIN hist.packets : hist.packets[i] = NoPacket
  THEN [hist EXCEPT !.packets = <<>>, !.first = InvalidPN]
  ELSE LET i == SelectInSeq(hist.packets, LAMBDA p : p # NoPacket)
       IN [hist EXCEPT !.packets = SubSeq(@, i, Len(@)), !.first = @ + i - 1]

Emptied(hist, pn) ==
  [hist EXCEPT !.packets[pn - hist.first + 1] = NoPacket,
               !.num = @ - (IF Outstanding(PacketAt(hist, pn)) THEN 1 ELSE 0)]

RemovePacket(hist, pn) ==
  IF \A i \in 1 .. pn - hist.first : hist.packets[i] = NoPacket THEN cleanupStart(Emptied(hist, pn)) ELSE Emptied(hist, pn)

DeclareLost(hist, pn) ==
  IF pn = hist.first THEN cleanupStart(Emptied(hist, pn)) ELSE Emptied(hist, pn)

RemoveAll(hist, pns) == FoldLeft(RemovePacket, hist, Ascending(pns))
DeclareAllLost(hist, pns) == FoldLeft(DeclareLost, hist, Ascending(pns))

HasPathProbe(hist, pn) == \E i \in DOMAIN hist.probes : hist.probes[i][1] = pn

(* Removing while iterating, as MigratedPath does: the entries behind a    *)
(* removed one move down by one, but the iteration goes on to the next     *)
(* place of the old slice, whose tail keeps the last entry.                *)
RECURSIVE RemoveProbesFrom(_, _, _)
RemoveProbesFrom(old, len, i) ==
  IF i > Len(old) THEN SubSeq(old, 1, len)
  ELSE LET at == {j \in 1 .. len : old[j][1] = old[i][1]}
       IN IF at = {} THEN RemoveProbesFrom(old, len, i + 1)
          ELSE LET j == CHOOSE k \in at : \A l \in at : k <= l
               IN RemoveProbesFrom([k \in DOMAIN old |-> IF k >= j /\ k < len THEN old[k + 1] ELSE old[k]], len - 1, i + 1)
RemovePathProbes(hist) == [hist EXCEPT !.probes = RemoveProbesFrom(@, Len(@), 1)]

FirstOutstanding(hist, inSpace) ==
  LET pns == {pn \in Packets(hist) : Outstanding(PacketAt(hist, pn)) /\ PacketAt(hist, pn).level \in inSpace}
  IN IF pns = {} THEN InvalidPN ELSE CHOOSE pn \in pns : \A q \in pns : pn <= q

(* a - b without the skipped numbers between.                              *)
Difference(hist, a, b) == a - b - Cardinality({i \in DOMAIN hist.skipped : hist.skipped[i] \in b + 1 .. a - 1})

LenHist(hist) == Len(hist.packets)

(* lostPacketTracker: pairs of number and send time.                       *)
AddLost(lost, pn, time) == Append(IF Len(lost) = MaxTrackedLostPackets THEN Tail(lost) ELSE lost, <<pn, time>>)
DeleteLost(lost, pns) == SelectSeq(lost, LAMBDA q : q[1] \notin pns)
DeleteBefore(lost, time) ==
  LET keep == {i \in DOMAIN lost : lost[i][2] >= time}
  IN IF keep = {} THEN <<>> ELSE SubSeq(lost, CHOOSE i \in keep : \A j \in keep : i <= j, Len(lost))

-----------------------------------------------------------------------------
CONSTANTS RTT,                        \* max(LatestRTT, SmoothedRTT)
          PTOBase, MaxAckDelay,       \* rttStats.PTO(false), and the peer's max_ack_delay
          MaxPTODuration, PathProbeTimeout,
          MaxTrackedSentPackets, MaxOutstandingSentPackets

PacketThreshold == 3
AmplificationFactor == 3
DefaultTimeThresholdEighths == 1
MaxTimeThresholdEighths == 8

Spaces == {"Initial", "Handshake", "AppData"}
SpaceOf(level) == IF level \in {"0RTT", "1RTT"} THEN "AppData" ELSE level
LevelsOf(space) == IF space = "AppData" THEN {"0RTT", "1RTT"} ELSE {space}

newPacketNumberSpace == [num |-> 0, lossTime |-> 0, lastTime |-> 0, largestAcked |-> InvalidPN, largestSent |-> InvalidPN]
NoAlarm == [time |-> 0, type |-> "none", level |-> "none"]
Alarm(time, type, level) == [time |-> time, type |-> type, level |-> level]

NewSentPacketHandler(client, validated, skip) ==
  [client |-> client, hist |-> newSentPacketHistory, spaces |-> [sp \in Spaces |-> newPacketNumberSpace], live |-> Spaces,
   pns |-> [sp \in Spaces |-> {}], counted |-> TRUE,
   lost |-> <<>>, thresholdOff |-> FALSE, eighths |-> DefaultTimeThresholdEighths, minPN |-> InvalidPN,
   peerCompleted |-> ~client, validated |-> client \/ validated, received |-> 0, sent |-> 0, confirmed |-> FALSE,
   inFlight |-> 0, cc |-> newCubicSender, ptoCount |-> 0, ptoMode |-> "none", probes |-> 0, alarm |-> NoAlarm,
   next |-> 0, untilSkip |-> skip, onAcked |-> EmptyBag, onLost |-> EmptyBag]

----------------------------------------------------------------------------
(* Packet numbers: one is skipped now and then in the application data     *)
(* space; skip is the random distance to the next one to skip.             *)

Peek(h, space) == IF space = "AppData" /\ h.untilSkip = 0 THEN h.next + 1 ELSE h.next
PopPacketNumber(h, space, skip) ==
  IF space = "AppData" /\ h.untilSkip = 0
  THEN [h EXCEPT !.next = @ + 2, !.untilSkip = skip, !.hist = SkippedPacket(@, h.next)]
  ELSE [h EXCEPT !.next = @ + 1, !.untilSkip = IF space = "AppData" THEN @ - 1 ELSE @]

----------------------------------------------------------------------------
(* The loss detection timer.                                               *)

isAmplificationLimited(h) == ~h.validated /\ h.sent >= AmplificationFactor * h.received

RECURSIVE Shifted(_, _)
Shifted(d, n) == IF n = 0 \/ d > MaxPTODuration THEN d ELSE Shifted(2 * d, n - 1)
getScaledPTO(h, includeMaxAckDelay) ==
  LET d == Shifted(PTOBase + (IF includeMaxAckDelay THEN MaxAckDelay ELSE 0), h.ptoCount)
  IN IF d > MaxPTODuration THEN MaxPTODuration ELSE d

(* The candidate with the earliest time that is set; the first of equals.  *)
Earlier(a, b) == IF a.time = 0 \/ (b.time # 0 /\ b.time < a.time) THEN b ELSE a

LossCandidate(h, space, level) ==
  IF space \in h.live THEN Alarm(h.spaces[space].lossTime, "ack", level) ELSE NoAlarm
getLossTimeAndSpace(h) ==
  Earlier(Earlier(LossCandidate(h, "Initial", "Initial"), LossCandidate(h, "Handshake", "Handshake")),
          LossCandidate(h, "AppData", "1RTT"))

hasOutstandingCryptoPackets(h) == \E sp \in {"Initial", "Handshake"} \cap h.live : h.spaces[sp].num > 0

PTOCandidate(h, space, level) ==
  IF space \in h.live /\ h.spaces[space].num > 0 /\ h.spaces[space].lastTime # 0
  THEN Alarm(h.spaces[space].lastTime + getScaledPTO(h, space = "AppData"), "pto", level)
  ELSE NoAlarm
getPTOTimeAndSpace(h, now) ==
  IF ~h.confirmed /\ ~hasOutstandingCryptoPackets(h)
  THEN IF h.peerCompleted THEN NoAlarm
       ELSE Alarm(now + getScaledPTO(h, FALSE), "pto", IF "Initial" \in h.live THEN "Initial" ELSE "Handshake")
  ELSE Earlier(Earlier(PTOCandidate(h, "Initial", "Initial"), PTOCandidate(h, "Handshake", "Handshake")),
               IF h.confirmed THEN PTOCandidate(h, "AppData", "1RTT") ELSE NoAlarm)

PathProbeAlarm(h) ==
  IF h.hist.probes = <<>> THEN NoAlarm ELSE Alarm(h.hist.probes[1][2].time + PathProbeTimeout, "probe", "1RTT")

First(alarm, probe) == alarm.time # 0 /\ (probe.time = 0 \/ alarm.time < probe.time)
lossDetectionTime(h, now) ==
  IF \/ h.peerCompleted /\ h.hist.num = 0 /\ h.hist.probes = <<>>
     \/ isAmplificationLimited(h)
  THEN NoAlarm
  ELSE IF First(getLossTimeAndSpace(h), PathProbeAlarm(h)) THEN getLossTimeAndSpace(h)
  ELSE IF First(getPTOTimeAndSpace(h, now), PathProbeAlarm(h)) THEN getPTOTimeAndSpace(h, now)
  ELSE PathProbeAlarm(h)
setLossDetectionTimer(h, now) == [h EXCEPT !.alarm = lossDetectionTime(h, now)]

----------------------------------------------------------------------------

removeFromBytesInFlight(h, p) ==
  IF ~p.inFlight THEN h
  ELSE [h EXCEPT !.inFlight = @ - 1, !.spaces[SpaceOf(p.level)].num = @ - (IF Outstanding(p) THEN 1 ELSE 0)]

RemoveFromFlight(h, ps) == FoldLeft(removeFromBytesInFlight, h, ps)
PacketsAt(h, pns) == [i \in 1 .. Cardinality(pns) |-> PacketAt(h.hist, Ascending(pns)[i])]

(* Initial and Handshake keys are dropped, or 0-RTT was rejected.          *)
DropPackets(h, level, now) ==
  LET pns == {pn \in Packets(h.hist) : PacketAt(h.hist, pn).level = level}
      g == IF h.client /\ level = "Handshake" THEN [h EXCEPT !.peerCompleted = TRUE] ELSE h
      f == [RemoveFromFlight(g, PacketsAt(h, pns)) EXCEPT !.hist = RemoveAll(@, pns)]
  IN IF level # "0RTT" /\ level \notin h.live THEN g
     ELSE setLossDetectionTimer([f EXCEPT !.live = IF level = "0RTT" THEN @ ELSE @ \ {level},
                                          !.confirmed = @ \/ level = "Handshake",
                                          !.ptoCount = 0, !.probes = 0, !.ptoMode = "none"], now)

ReceivedBytes(h, n, now) ==
  LET g == [h EXCEPT !.received = @ + n]
  IN IF isAmplificationLimited(h) /\ ~isAmplificationLimited(g) THEN setLossDetectionTimer(g, now) ELSE g

ReceivedPacket(h, level, now) ==
  IF ~h.client /\ level = "Handshake" /\ ~h.validated THEN setLossDetectionTimer([h EXCEPT !.validated = TRUE], now) ELSE h

(* SentPacket, for the packet number pn that was popped for it.            *)
Registered(h, pn, level) ==
  [h EXCEPT !.sent = @ + 1, !.spaces[SpaceOf(level)].largestSent = pn,
            !.minPN = IF SpaceOf(level) = "AppData" /\ @ = InvalidPN THEN pn ELSE @,
            !.pns[SpaceOf(level)] = @ \cup {pn}]
InFlightNow(h, level, kind, now) ==
  IF kind = "ack" THEN h
  ELSE [h EXCEPT !.spaces[SpaceOf(level)].lastTime = now, !.spaces[SpaceOf(level)].num = @ + (IF kind = "data" THEN 1 ELSE 0),
                 !.inFlight = @ + 1, !.probes = IF @ > 0 THEN @ - 1 ELSE 0]
SentPacket(h, pn, level, kind, now) ==
  LET g == InFlightNow(Registered(h, pn, level), level, kind, now)
      f == [g EXCEPT !.cc = OnPacketSent(@, pn, kind # "ack"), !.hist = SentPacketHist(@, pn, Packet(now, level, kind, kind # "ack"))]
  IN IF kind = "ack" /\ h.peerCompleted THEN f ELSE setLossDetectionTimer(f, now)
SentProbe(h, pn, now) ==
  setLossDetectionTimer([Registered(h, pn, "1RTT") EXCEPT !.hist = SentPathProbePacket(@, pn, Packet(now, "1RTT", "probe", FALSE))], now)

SendMode(h) ==
  IF isAmplificationLimited(h) \/ LenHist(h.hist) >= MaxTrackedSentPackets THEN "none"
  ELSE IF h.probes > 0 THEN h.ptoMode
  ELSE IF ~CanSend(h.cc, h.inFlight) \/ LenHist(h.hist) >= MaxOutstandingSentPackets THEN "ack"
  ELSE "any"

queueFramesForRetransmission(h, pns) == [h EXCEPT !.onLost = @ (+) SetToBag(pns)]

QueueProbePacket(h, space) ==
  LET pn == FirstOutstanding(h.hist, LevelsOf(space))
  IN IF pn = InvalidPN THEN h
     ELSE queueFramesForRetransmission([removeFromBytesInFlight(h, PacketAt(h.hist, pn)) EXCEPT !.hist = DeclareLost(@, pn)], {pn})

----------------------------------------------------------------------------
(* Loss detection.                                                         *)

LossDelay(eighths) == (RTT * (8 + eighths)) \div 8

HandshakeNumbers(h, space, lower, upper) == Cardinality({q \in h.pns[space] : q > lower /\ q <= upper})
Distance(h, space, pn) ==
  IF space # "AppData" THEN HandshakeNumbers(h, space, pn, h.spaces[space].largestAcked)
  ELSE Difference(h.hist, h.spaces[space].largestAcked, pn)
       - (IF h.counted THEN HandshakeNumbers(h, "Initial", pn, h.spaces[space].largestAcked)
                            + HandshakeNumbers(h, "Handshake", pn, h.spaces[space].largestAcked) ELSE 0)

Candidates(h, space) ==
  {pn \in Packets(h.hist) : pn <= h.spaces[space].largestAcked /\ SpaceOf(PacketAt(h.hist, pn).level) = space}
TooOld(h, pn, delay, now) == PacketAt(h.hist, pn).time <= now - delay
LostNow(h, space, delay, now) ==
  {pn \in Candidates(h, space) :
     TooOld(h, pn, delay, now) \/ ((space # "AppData" \/ ~h.thresholdOff) /\ Distance(h, space, pn) >= PacketThreshold)}

(* The packets in lost are declared lost, in ascending order.              *)
TrackLost(h, pn) ==
  IF Outstanding(PacketAt(h.hist, pn)) /\ SpaceOf(PacketAt(h.hist, pn).level) = "AppData"
  THEN AddLost(h.lost, pn, PacketAt(h.hist, pn).time) ELSE h.lost
LoseOne(h, pn) ==
  LET p == PacketAt(h.hist, pn)
      g == [h EXCEPT !.hist = DeclareLost(@, pn), !.lost = TrackLost(h, pn)]
  IN IF ~IsAckEliciting(p) THEN g
     ELSE queueFramesForRetransmission(
            [removeFromBytesInFlight(g, p) EXCEPT !.cc = IF p.kind = "mtu" THEN @ ELSE OnCongestionEvent(@, pn)], {pn})

Oldest(h, pns, delay) == IF pns = {} THEN 0 ELSE PacketAt(h.hist, CHOOSE pn \in pns : \A q \in pns : pn <= q).time + delay
ForgetHandshake(h) ==
  IF h.confirmed /\ h.counted /\ (h.hist.first = InvalidPN \/ \A q \in h.pns["Initial"] \cup h.pns["Handshake"] : h.hist.first > q)
  THEN [h EXCEPT !.counted = FALSE] ELSE h
Detected(h, space, lost, delay) ==
  ForgetHandshake(FoldLeft(LoseOne, [h EXCEPT !.spaces[space].lossTime = Oldest(h, Candidates(h, space) \ lost, delay)], Ascending(lost)))
detectLostPackets(h, space, now) ==
  LET delay == LossDelay(IF space = "AppData" THEN h.eighths ELSE DefaultTimeThresholdEighths)
  IN Detected(h, space, LostNow(h, space, delay, now), delay)

detectLostPathProbes(h, now) == [h EXCEPT !.hist.probes = SelectSeq(@, LAMBDA q : q[2].time > now - PathProbeTimeout)]

(* The lost packets that are acknowledged: one pass over the lost packets  *)
(* and over the ranges of the ACK frame, which are in ascending order.     *)
Ranges(S) == {<<a, b>> \in S \X S : a <= b /\ a .. b \subseteq S /\ a - 1 \notin S /\ b + 1 \notin S}
SpuriousStep(acc, q) ==
  LET from == {r \in acc.ranges : r[2] >= q[1]}
      left == IF from = {} THEN {CHOOSE r \in acc.ranges : \A s \in acc.ranges : s[2] <= r[2]} ELSE from
      at == CHOOSE r \in left : \A s \in left : r[2] <= s[2]
  IN [ranges |-> left, found |-> IF q[1] >= at[1] /\ q[1] <= at[2] THEN Append(acc.found, q) ELSE acc.found]
SpuriousLosses(h, S) == FoldLeft(SpuriousStep, [ranges |-> Ranges(S), found |-> <<>>], h.lost).found

Late(h, spurious, now) ==
  h.minPN # InvalidPN /\ \E i \in DOMAIN spurious : spurious[i][1] >= h.minPN /\ now - spurious[i][2] > LossDelay(h.eighths)
Relaxes(h, spurious, now) == Late(h, spurious, now) /\ h.eighths < MaxTimeThresholdEighths
AfterSpurious(h, spurious, now) ==
  LET g == [h EXCEPT !.thresholdOff = @ \/ spurious # <<>>, !.lost = DeleteLost(@, {spurious[i][1] : i \in DOMAIN spurious})]
  IN IF Relaxes(h, spurious, now)
     THEN [g EXCEPT !.eighths = IF 2 * @ > MaxTimeThresholdEighths THEN MaxTimeThresholdEighths ELSE 2 * @, !.minPN = InvalidPN]
     ELSE g

----------------------------------------------------------------------------
(* ReceivedAck of an ACK frame for the packet numbers in S.                *)

AckError(h, S, level) ==
  IF \E pn \in S : pn > h.spaces[SpaceOf(level)].largestSent THEN "received ACK for an unsent packet"
  ELSE IF level = "1RTT" /\ \E i \in DOMAIN h.hist.skipped : h.hist.skipped[i] \in S THEN "received an ACK for skipped packet number"
  ELSE ""

AckedNow(h, S, space) ==
  {pn \in Packets(h.hist) \cap S :
     SpaceOf(PacketAt(h.hist, pn).level) = space /\ (PacketAt(h.hist, pn).kind = "probe" => HasPathProbe(h.hist, pn))}
Eliciting(h, pns) == {pn \in pns : IsAckEliciting(PacketAt(h.hist, pn))}
Without(h, pns) ==
  [h EXCEPT !.hist = RemoveAll([@ EXCEPT !.probes = SelectSeq(@, LAMBDA q : q[1] \notin pns)], pns),
            !.onAcked = @ (+) SetToBag(Eliciting(h, pns))]

Samples(h, S, pns) ==
  LET largest == CHOOSE pn \in S : \A q \in S : q <= pn
  IN largest \in pns /\ PacketAt(h.hist, largest).kind # "probe" /\ Eliciting(h, pns) # {}

AckOne(acc, q) ==
  [acc EXCEPT !.h = removeFromBytesInFlight(IF q[2].inFlight THEN [@ EXCEPT !.cc = OnPacketAcked(@, q[1], acc.prior)] ELSE @, q[2])]
AckEach(h, acked, prior) == FoldLeft(AckOne, [h |-> h, prior |-> prior], acked).h

SpuriousOne(h, q) == [h EXCEPT !.cc = OnSpuriousLoss(@, q[1])]

(* From the packets newly acknowledged and the spurious losses on.         *)
Raised(h, space, S, pns) ==
  IF pns = {} THEN h
  ELSE [h EXCEPT !.spaces[space].largestAcked = LET m == CHOOSE pn \in S : \A q \in S : q <= pn IN IF m > @ THEN m ELSE @]
Detecting(h, space, again, now) ==
  IF ~again THEN h
  ELSE IF space = "AppData" THEN detectLostPathProbes(detectLostPackets(h, space, now), now)
  ELSE detectLostPackets(h, space, now)
Finish(h, acked, prior, relaxed, now) ==
  IF acked = <<>> THEN IF relaxed THEN setLossDetectionTimer(h, now) ELSE h
  ELSE setLossDetectionTimer([AckEach(h, acked, prior) EXCEPT !.ptoCount = IF h.peerCompleted THEN 0 ELSE @, !.probes = 0], now)

Handle(h, S, space, now, pns, spurious, prior) ==
  LET acked == [i \in 1 .. Cardinality(pns) |-> <<Ascending(pns)[i], PacketAt(h.hist, Ascending(pns)[i])>>]
      rtt == [Without(h, pns) EXCEPT !.cc = IF Samples(h, S, pns) THEN MaybeExitSlowStart(@, FALSE) ELSE @]
      relaxed == space = "AppData" /\ Relaxes(h, spurious, now)
      late == IF space # "AppData" THEN rtt
              ELSE [AfterSpurious(rtt, spurious, now) EXCEPT !.lost = DeleteBefore(@, now - 3 * PTOBase)]
      found == Detecting(Raised(late, space, S, pns), space, pns # {} \/ relaxed, now)
  IN Finish(FoldLeft(SpuriousOne, found, spurious), acked, prior, relaxed, now)

ReceivedAck(h, S, level, now) ==
  LET space == SpaceOf(level)
      g == IF h.client /\ ~h.peerCompleted /\ level # "Initial" THEN setLossDetectionTimer([h EXCEPT !.peerCompleted = TRUE], now) ELSE h
  IN Handle(g, S, space, now, AckedNow(g, S, space), IF level = "1RTT" THEN SpuriousLosses(g, S) ELSE <<>>, g.inFlight)

----------------------------------------------------------------------------
(* OnLossDetectionTimeout; skip is the distance drawn if a number is       *)
(* skipped.                                                                *)

PTOMode(h, level, skip) ==
  IF level # "1RTT" THEN [h EXCEPT !.ptoMode = level]
  ELSE LET g == PopPacketNumber(h, "AppData", skip)
       IN [g EXCEPT !.hist = SkippedPacket(@, Peek(h, "AppData")), !.ptoMode = "AppData"]

PTOFires(h, alarm, skip) ==
  IF \/ alarm.time = 0
     \/ /\ h.spaces[SpaceOf(alarm.level)].num = 0 /\ ~h.peerCompleted
        /\ alarm.level # "1RTT" \/ h.hist.probes = <<>>
  THEN h
  ELSE PTOMode([h EXCEPT !.ptoCount = @ + 1, !.probes = @ + 2], alarm.level, skip)

Expired(h, now, skip) ==
  IF getLossTimeAndSpace(h).time # 0 THEN detectLostPackets(h, SpaceOf(getLossTimeAndSpace(h).level), now)
  ELSE IF h.inFlight = 0 /\ ~h.peerCompleted
  THEN [h EXCEPT !.ptoCount = @ + 1, !.probes = @ + 1,
                 !.ptoMode = IF "Initial" \in h.live THEN "Initial" ELSE IF "Handshake" \in h.live THEN "Handshake" ELSE "BUG"]
  ELSE PTOFires(h, getPTOTimeAndSpace(h, now), skip)

OnLossDetectionTimeout(h, now, skip) ==
  setLossDetectionTimer(Expired(IF h.confirmed THEN detectLostPathProbes(h, now) ELSE h, now, skip), now)

----------------------------------------------------------------------------

(* Only Initial and 0-RTT packets have been sent; all are sent again.      *)
ResetForRetry(h) ==
  [queueFramesForRetransmission(h, Eliciting(h, Packets(h.hist))) EXCEPT !.inFlight = 0, !.hist = newSentPacketHistory, !.pns = [sp \in Spaces |-> {}],
            !.spaces = [@ EXCEPT !["Initial"] = newPacketNumberSpace, !["AppData"] = newPacketNumberSpace],
            !.alarm = NoAlarm, !.ptoCount = 0]

MigratedPath(h, now) ==
  LET pns == {pn \in Packets(h.hist) : SpaceOf(PacketAt(h.hist, pn).level) = "AppData"}
      g == queueFramesForRetransmission(RemoveFromFlight(h, PacketsAt(h, pns)), Eliciting(h, pns))
  IN setLossDetectionTimer([g EXCEPT !.hist = RemovePathProbes(DeclareAllLost(@, pns)), !.cc = newCubicSender,
                                     !.thresholdOff = FALSE, !.eighths = DefaultTimeThresholdEighths,
                                     !.minPN = InvalidPN, !.lost = <<>>], now)

-----------------------------------------------------------------------------
CONSTANT Configs  \* scenarios: [client, early, confirmed, packets, kinds, waits, until, skips, events, bytes]

VARIABLES cfg,    \* the scenario
          h,      \* the handler
          keys,   \* encryption levels with send keys
          now,    \* the time
          void,   \* packets the peer cannot acknowledge any more
          event   \* the type of the alarm that fired in the last step, "migrate" or "other"

vars == <<cfg, h, keys, now, void, event>>

Confirmed(g) == DropPackets(DropPackets(g, "Initial", 1), "Handshake", 1)

Init ==
  /\ cfg \in Configs
  /\ h = LET g == NewSentPacketHandler(cfg.client, FALSE, cfg.skip)
         IN IF cfg.confirmed THEN Confirmed([g EXCEPT !.validated = TRUE]) ELSE g
  /\ keys = IF cfg.confirmed THEN {"1RTT"} ELSE {"Initial"} \cup (IF cfg.early THEN {"0RTT"} ELSE {})
  /\ now = 1 /\ void = {} /\ event = "other"

Level(space) == IF space = "AppData" THEN "1RTT" ELSE space
Pops(space, skip) == PopPacketNumber(h, space, skip)
Room == h.next + 1 < cfg.packets

(* sendPackets: a packet at some level, as SendMode allows.                *)
Send ==
  \E level \in keys, kind \in cfg.kinds :
    /\ Room /\ SpaceOf(level) \in h.live
    /\ SendMode(h) = "any" \/ (SendMode(h) = "ack" /\ kind = "ack")
    /\ kind = "mtu" => level = "1RTT" /\ h.confirmed
    /\ level = "0RTT" => kind = "data"
    /\ level # "Initial" => cfg.confirmed \/ h.pns["Initial"] # {}  \* the ClientHello comes first
    /\ h' = SentPacket(Pops(SpaceOf(level), cfg.skip), Peek(h, SpaceOf(level)), level, kind, now)
    /\ event' = "other"
    /\ UNCHANGED <<cfg, keys, now, void>>

(* sendProbePacket: the oldest outstanding packet is sent again, or a PING.*)
SendProbePacket ==
  /\ Room /\ SendMode(h) \in h.live
  /\ LET g == QueueProbePacket(h, h.ptoMode)
     IN h' = SentPacket(PopPacketNumber(g, h.ptoMode, cfg.skip), Peek(g, h.ptoMode), Level(h.ptoMode), "data", now)
  /\ event' = "other"
  /\ UNCHANGED <<cfg, keys, now, void>>

PathProbe ==
  /\ Room /\ "probe" \in cfg.events /\ h.confirmed
  /\ h' = SentProbe(Pops("AppData", cfg.skip), Peek(h, "AppData"), now)
  /\ event' = "other"
  /\ UNCHANGED <<cfg, keys, now, void>>

(* The numbers sent in a space that the peer may still acknowledge.        *)
Ackable(space) == h.pns[space] \ void

ReceiveAck ==
  \E level \in keys \ {"0RTT"} :
    /\ SpaceOf(level) \in h.live
    /\ \E S \in (SUBSET Ackable(SpaceOf(level))) \ {{}} :
         h' = IF AckError(h, S, level) # "" THEN h ELSE ReceivedAck(h, S, level, now)
    /\ event' = "other"
    /\ UNCHANGED <<cfg, keys, now, void>>

(* The run loop calls OnLossDetectionTimeout when the alarm is due, which  *)
(* may be late.                                                            *)
Timeout ==
  /\ h.alarm.time # 0 /\ h.alarm.time <= now
  /\ h.ptoCount < cfg.ptos /\ (h.alarm.level = "1RTT" => Room)
  /\ h' = OnLossDetectionTimeout(h, now, cfg.skip)
  /\ event' = h.alarm.type
  /\ UNCHANGED <<cfg, keys, now, void>>

Wait ==
  /\ \E t \in {now + d : d \in cfg.waits} \cup {h.alarm.time} : t > now /\ t <= cfg.until /\ now' = t
  /\ event' = "other"
  /\ UNCHANGED <<cfg, h, keys, void>>

Datagram ==
  /\ h.received < cfg.bytes
  /\ \E level \in {"Initial", "Handshake"} :
       /\ level = "Handshake" => "Handshake" \in keys
       /\ h' = ReceivedPacket(ReceivedBytes(h, 1, now), level, now)
  /\ event' = "other"
  /\ UNCHANGED <<cfg, keys, now, void>>

InstallKeys ==
  /\ \/ "Handshake" \notin keys /\ "1RTT" \notin keys /\ keys' = keys \cup {"Handshake"}
     \/ "Handshake" \in keys /\ "1RTT" \notin keys /\ keys' = (keys \ {"0RTT"}) \cup {"1RTT"}
  /\ event' = "other"
  /\ UNCHANGED <<cfg, h, now, void>>

(* dropEncryptionLevel for Initial and Handshake, and the rejection of     *)
(* 0-RTT.                                                                  *)
Drop ==
  \E level \in keys \ {"1RTT"} :
    /\ level = "Initial" => "Handshake" \in keys
    /\ level = "Handshake" => "1RTT" \in keys /\ "Initial" \notin keys
    /\ h' = DropPackets(h, level, now)
    /\ keys' = keys \ {level}
    /\ void' = IF level = "0RTT" THEN void \cup h.pns["AppData"] ELSE void
    /\ event' = "other"
    /\ UNCHANGED <<cfg, now>>

Retry ==
  /\ "retry" \in cfg.events /\ h.client /\ keys \subseteq {"Initial", "0RTT"} /\ void = {} /\ h.pns["Initial"] # {}
  /\ h' = ResetForRetry(h)
  /\ void' = 0 .. h.next - 1
  /\ event' = "other"
  /\ UNCHANGED <<cfg, keys, now>>

Migrate ==
  /\ "migrate" \in cfg.events /\ h.confirmed /\ event # "migrate"
  /\ h' = MigratedPath(h, now)
  /\ event' = "migrate"
  /\ UNCHANGED <<cfg, keys, now, void>>

Next == Send \/ SendProbePacket \/ PathProbe \/ ReceiveAck \/ Timeout \/ Wait \/ Datagram \/ InstallKeys \/ Drop \/ Retry \/ Migrate

Spec == Init /\ [][Next]_vars

----------------------------------------------------------------------------

TypeOK ==
  /\ now \in Nat /\ keys \subseteq {"Initial", "0RTT", "Handshake", "1RTT"}
  /\ h.inFlight \in Nat /\ h.probes \in Nat /\ h.hist.num \in Nat
  /\ \A sp \in Spaces : h.spaces[sp].num \in Nat
  /\ h.ptoMode \in Spaces \cup {"none"}

Tracked == Packets(h.hist)
TrackedData(space) == {pn \in Tracked : Outstanding(PacketAt(h.hist, pn)) /\ SpaceOf(PacketAt(h.hist, pn).level) = space}

(* The counters that recovery decides by are those of the packets it       *)
(* tracks: the bytes in flight, the outstanding packets in all and in      *)
(* every space, whatever order packets are acknowledged, declared lost,    *)
(* dropped with their keys or abandoned with their path in.  The slice has *)
(* no empty slot at its start (the panics of sent_packet_history.go).      *)
CountersExact ==
  /\ h.hist.packets # <<>> => h.hist.packets[1] # NoPacket
  /\ h.hist.num = Cardinality({pn \in Tracked : Outstanding(PacketAt(h.hist, pn))})
  /\ h.inFlight = Cardinality({pn \in Tracked : PacketAt(h.hist, pn).inFlight})
  /\ \A sp \in h.live : h.spaces[sp].num = Cardinality(TrackedData(sp))

(* No frame is forgotten and none is reported twice: every ack-eliciting   *)
(* packet is still tracked, or its frames' handlers were told once that it *)
(* was acknowledged or once that it was lost, unless its keys are gone.    *)
FramesAccountedFor ==
  LET told(pn) == CopiesIn(pn, h.onAcked) + CopiesIn(pn, h.onLost)
  IN /\ \A pn \in Tracked : told(pn) = 0
     /\ \A pn \in BagToSet(h.onAcked) \cup BagToSet(h.onLost) : told(pn) = 1

(* While ack-eliciting packets are outstanding that a probe timeout may    *)
(* cover, and the endpoint may send, the loss detection alarm is set; and  *)
(* a client whose address the server may not have validated yet always has *)
(* an alarm once it has sent something.                                    *)
AlarmSet ==
  ~isAmplificationLimited(h) =>
    /\ (h.confirmed /\ h.hist.num > 0) \/ hasOutstandingCryptoPackets(h) => h.alarm.time # 0
    /\ ~h.peerCompleted /\ h.hist.packets # <<>> => h.alarm.time # 0

(* Losses are recorded in ascending order, which detectSpuriousLosses      *)
(* relies on to match them with the ranges of an ACK frame in one pass:    *)
(* the pass finds exactly the lost packets that the frame acknowledges.    *)
SpuriousLossesExact ==
  \A S \in (SUBSET Ackable("AppData")) \ {{}} :
    {SpuriousLosses(h, S)[i][1] : i \in DOMAIN SpuriousLosses(h, S)} = {h.lost[i][1] : i \in DOMAIN h.lost} \cap S

(* A cutback is undone only when all its losses are spurious: it still     *)
(* counts at least the losses of its round that are remembered.            *)
UndoCountsLosses ==
  h.cc.undo.events > 0 =>
    h.cc.undo.events >= Cardinality({i \in DOMAIN h.lost : h.lost[i][1] > h.cc.undo.cutback /\ h.lost[i][1] <= h.cc.cutback})

(* A peer that acknowledges only packets that were sent to it is never     *)
(* accused: skipped packet numbers are never sent.                         *)
HonestAcksAccepted ==
  \A level \in keys \ {"0RTT"} : SpaceOf(level) \in h.live =>
    \A pn \in Ackable(SpaceOf(level)) : AckError(h, {pn}, level) = ""

(* A probe timeout asks for a probe at a level that still has keys, and    *)
(* only an endpoint that is not limited by amplification gets one.         *)
ProbesHaveKeys == h.probes > 0 => h.ptoMode \in h.live /\ Level(h.ptoMode) \in keys

(* When a client's timer expires before the server has validated its       *)
(* address, it sends a packet, since the server may be unable to send.     *)
TimerUnblocksServer == event = "pto" /\ ~h.peerCompleted => h.probes > 0

(* No path probe is left behind on a path that was abandoned.              *)
ProbesLeftBehind == event = "migrate" => h.hist.probes = <<>>

=============================================================================
