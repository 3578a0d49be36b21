--------------------------- MODULE ReceivedPackets -------------------------
(***************************************************************************)
(* The receiver's side of acknowledgements (received_packet_history.go,    *)
(* received_packet_tracker.go, received_packet_handler.go): the ranges of  *)
(* packet numbers received, and when an ACK is sent.                       *)
(***************************************************************************)
EXTENDS Integers, Sequences, SequencesExt, FiniteSets

CONSTANTS MaxNumAckRanges, MaxAckDelay,
          MaxPN,     \* bound: packet numbers 0 .. MaxPN are sent
          MaxTime    \* bound

InvalidPN == -1
PacketsBeforeAck == 2
ReorderingThreshold == 1

(* receivedPacketHistory: ranges in ascending order.                       *)
newReceivedPacketHistory == [ranges |-> <<>>, deletedBelow |-> InvalidPN]
Interval(a, b) == [start |-> a, end |-> b]
Within(r, p) == p >= r.start /\ p <= r.end

(* The range that p extends, from the last one down; 0 if p is a range of  *)
(* its own, or is contained in one already.                                *)
Merged(ranges, i) ==
  IF i > 1 /\ ranges[i - 1].end + 1 = ranges[i].start
  THEN SubSeq(ranges, 1, i - 2) \o <<Interval(ranges[i - 1].start, ranges[i].end)>> \o SubSeq(ranges, i + 1, Len(ranges))
  ELSE ranges
addToRanges(ranges, p) ==
  LET at == SelectLastInSeq(ranges, LAMBDA r : Within(r, p) \/ r.end = p - 1 \/ r.start = p + 1 \/ p > r.end)
  IN IF at = 0 THEN <<Interval(p, p)>> \o ranges
     ELSE IF Within(ranges[at], p) THEN ranges
     ELSE IF ranges[at].end = p - 1 THEN [ranges EXCEPT ![at].end = p]
     ELSE IF ranges[at].start = p + 1 THEN Merged([ranges EXCEPT ![at].start = p], at)
     ELSE InsertAt(ranges, at + 1, Interval(p, p))

TooMany(hist, p) == p >= hist.deletedBelow /\ Len(addToRanges(hist.ranges, p)) > MaxNumAckRanges
AddPacket(hist, p) ==
  IF p < hist.deletedBelow THEN hist
  ELSE LET ranges == addToRanges(hist.ranges, p)
       IN [hist EXCEPT !.ranges = IF Len(ranges) > MaxNumAckRanges THEN SubSeq(ranges, Len(ranges) - MaxNumAckRanges + 1, Len(ranges)) ELSE ranges]

DeleteBelow(hist, p) ==
  IF p < hist.deletedBelow THEN hist
  ELSE LET kept == SelectSeq(hist.ranges, LAMBDA r : r.end >= p)
       IN [deletedBelow |-> p, ranges |-> IF kept # <<>> /\ kept[1].start < p THEN [kept EXCEPT ![1].start = p] ELSE kept]

(* The limit below which nothing counts is forgotten.                      *)
HighestMissingUnlimited(hist, upTo) ==
  IF hist.ranges = <<>> THEN InvalidPN
  ELSE LET p == IF Last(hist.ranges).end < upTo THEN Last(hist.ranges).end ELSE upTo
           in == {i \in DOMAIN hist.ranges : Within(hist.ranges[i], p)}
       IN IF in = {} THEN p ELSE hist.ranges[CHOOSE i \in in : TRUE].start - 1
HighestMissingUpTo(hist, upTo) ==
  IF hist.ranges = <<>> \/ (hist.deletedBelow # InvalidPN /\ upTo < hist.deletedBelow) THEN InvalidPN
  ELSE LET p == IF Last(hist.ranges).end < upTo THEN Last(hist.ranges).end ELSE upTo
           in == {i \in DOMAIN hist.ranges : Within(hist.ranges[i], p)}
           highest == hist.ranges[CHOOSE i \in in : TRUE].start - 1
       IN IF in = {} THEN p
          ELSE IF hist.deletedBelow # InvalidPN /\ highest < hist.deletedBelow THEN InvalidPN
          ELSE highest

(* IsPotentiallyDuplicate walks the ranges from the last one down.         *)
IsPotentiallyDuplicate(hist, p) ==
  \/ p < hist.deletedBelow
  \/ \E i \in DOMAIN hist.ranges : Within(hist.ranges[i], p)

----------------------------------------------------------------------------
(* appDataReceivedPacketTracker and the 0-RTT check of the handler.        *)

NoAck == [ranges |-> <<>>]
newTracker ==
  [hist |-> newReceivedPacketHistory, lastAck |-> NoAck, hasNewAck |-> FALSE, largest |-> 0, largestTime |-> 0,
   ignoreBelow |-> 0, queued |-> FALSE, sinceLastAck |-> 0, alarm |-> 0, lowest1RTT |-> InvalidPN]

LargestAcked(ack) == Last(ack.ranges).end
AcksPacket(ack, p) == \E i \in DOMAIN ack.ranges : Within(ack.ranges[i], p)

isMissing(t, p) == t.lastAck # NoAck /\ p >= t.ignoreBelow /\ p < LargestAcked(t.lastAck) /\ ~AcksPacket(t.lastAck, p)
NewMissing(t, highest) ==
  /\ highest # InvalidPN /\ highest >= LargestAcked(t.lastAck)
  /\ highest > LargestAcked(t.lastAck) - ReorderingThreshold
hasNewMissingPackets(t) ==
  /\ t.lastAck # NoAck /\ t.largest >= ReorderingThreshold
  /\ NewMissing(t, HighestMissingUpTo(t.hist, t.largest - ReorderingThreshold))

shouldQueueACK(t, ce, wasMissing) ==
  wasMissing \/ t.sinceLastAck >= PacketsBeforeAck \/ hasNewMissingPackets(t) \/ ce

Observed(t, pn, time) ==
  [t EXCEPT !.hist = AddPacket(@, pn), !.largest = IF pn >= @ THEN pn ELSE @, !.largestTime = IF pn >= t.largest THEN time ELSE @]
Elicited(t, pn, ce, time) ==
  LET u == [t EXCEPT !.hasNewAck = TRUE, !.sinceLastAck = @ + 1]
  IN IF t.queued THEN u
     ELSE IF shouldQueueACK(u, ce, isMissing(u, pn)) THEN [u EXCEPT !.queued = TRUE, !.alarm = 0]
     ELSE [u EXCEPT !.alarm = time + MaxAckDelay]
ReceivedPacket(t, pn, ce, time, eliciting) ==
  IF eliciting THEN Elicited(Observed(t, pn, time), pn, ce, time) ELSE Observed(t, pn, time)

ZeroRTTError(t, pn) == t.lowest1RTT # InvalidPN /\ pn > t.lowest1RTT
Lowest(t, pn) == [t EXCEPT !.lowest1RTT = IF @ = InvalidPN \/ pn < @ THEN pn ELSE @]

IgnoreBelow(t, pn) == IF pn <= t.ignoreBelow THEN t ELSE [t EXCEPT !.ignoreBelow = pn, !.hist = DeleteBelow(@, pn)]

AckDue(t, now, onlyIfQueued) == t.hasNewAck /\ (onlyIfQueued /\ ~t.queued => t.alarm # 0 /\ t.alarm <= now)
AfterAck(t) ==
  [t EXCEPT !.lastAck = [ranges |-> t.hist.ranges], !.hasNewAck = FALSE, !.queued = FALSE, !.alarm = 0, !.sinceLastAck = 0]

----------------------------------------------------------------------------

VARIABLES t,        \* the tracker
          now,
          first1RTT,\* packets from this number on are 1-RTT packets
          got,      \* packet numbers processed
          evicted,  \* whether a range was given up because there were too many
          twice,    \* packet numbers processed more than once
          since,    \* when the oldest ack-eliciting packet not covered by an ACK frame came; 0 if none
          sentAcks, \* largest packet number of the ACK frames sent
          refused   \* 0-RTT packets refused

vars == <<t, now, first1RTT, got, evicted, twice, since, sentAcks, refused>>

Init ==
  /\ t = newTracker /\ now = 1 /\ first1RTT \in {0, 2} /\ got = {} /\ evicted = FALSE /\ twice = {} /\ since = 0 /\ sentAcks = {} /\ refused = {}

(* handleUnpackedPacket: a packet, or a copy of one that came before, that *)
(* is not taken for a duplicate.  Its frames are handled first; one may    *)
(* acknowledge a packet that carried an ACK frame up to packet number      *)
(* acked, which the peer can only have sent after packet acked.  The       *)
(* network makes no more than one copy of a packet.                        *)
Handled(acked) == IF acked = InvalidPN THEN t ELSE IgnoreBelow(t, acked + 1)
Accept(u, pn, eliciting, ce) ==
  /\ t' = ReceivedPacket(IF pn < first1RTT THEN u ELSE Lowest(u, pn), pn, ce, now, eliciting)
  /\ evicted' = (evicted \/ TooMany(u.hist, pn))
  /\ got' = got \cup {pn} /\ twice' = IF pn \in got THEN twice \cup {pn} ELSE twice
  /\ since' = IF eliciting /\ since = 0 THEN now ELSE since
  /\ UNCHANGED refused
Receive ==
  \E pn \in 0 .. MaxPN, eliciting, ce \in BOOLEAN, acked \in sentAcks \cup {InvalidPN} :
    /\ ~IsPotentiallyDuplicate(t.hist, pn) /\ pn > acked /\ pn \notin twice
    /\ IF pn < first1RTT /\ ZeroRTTError(t, pn) THEN refused' = refused \cup {pn} /\ UNCHANGED <<t, got, evicted, twice, since>>
       ELSE Accept(Handled(acked), pn, eliciting, ce)
    /\ sentAcks' = {q \in sentAcks : q > acked}
    /\ UNCHANGED <<now, first1RTT>>

SendAck ==
  \E onlyIfQueued \in BOOLEAN :
    /\ AckDue(t, now, onlyIfQueued)
    /\ t' = AfterAck(t)
    /\ since' = 0 /\ sentAcks' = sentAcks \cup {LargestAcked(t.hist)}
    /\ UNCHANGED <<now, first1RTT, got, evicted, twice, refused>>

Wait ==
  /\ now < MaxTime /\ now' = now + 1
  /\ UNCHANGED <<t, first1RTT, got, evicted, twice, since, sentAcks, refused>>

Next == Receive \/ SendAck \/ Wait

Spec == Init /\ [][Next]_vars

----------------------------------------------------------------------------

TypeOK == t.alarm \in 0 .. MaxTime + MaxAckDelay /\ t.sinceLastAck \in Nat /\ t.hist.deletedBelow \in InvalidPN .. MaxPN + 1

Runs(S) == {r \in [start : S, end : S] : r.start <= r.end /\ r.start .. r.end \subseteq S /\ r.start - 1 \notin S /\ r.end + 1 \notin S}

(* The ranges are the maximal runs of packet numbers processed, from the   *)
(* lower limit on, whatever order packets come in (and from the first one  *)
(* kept on, if there were too many ranges); they are in order, and an ACK  *)
(* frame acknowledges nothing that was not received.                       *)
RangesExact ==
  /\ \A i \in DOMAIN t.hist.ranges : t.hist.ranges[i].start .. t.hist.ranges[i].end \subseteq got
  /\ \A i \in 1 .. Len(t.hist.ranges) - 1 : t.hist.ranges[i].end + 1 < t.hist.ranges[i + 1].start
  /\ ToSet(t.hist.ranges) =
       Runs({p \in got : p >= t.hist.deletedBelow /\ (evicted => t.hist.ranges # <<>> /\ p >= t.hist.ranges[1].start)})

(* The highest missing packet number up to p is that of the ranges.        *)
HighestMissingExact ==
  t.hist.ranges # <<>> => \A p \in 0 .. MaxPN :
    LET missing == {q \in t.hist.deletedBelow .. p : q >= 0 /\ q <= Last(t.hist.ranges).end /\ ~IsPotentiallyDuplicate(t.hist, q)}
    IN HighestMissingUpTo(t.hist, p) = IF missing = {} THEN InvalidPN ELSE CHOOSE q \in missing : \A r \in missing : r <= q

(* An ack-eliciting packet that no ACK frame covers yet is acknowledged at *)
(* once or within max_ack_delay of its receipt, however many packets that  *)
(* are not ack-eliciting, late packets and duplicates come after it; and   *)
(* the ACK frame that is due has a range (LargestAcked reads the first).   *)
AckWithinDelay == since # 0 => t.hasNewAck /\ t.hist.ranges # <<>> /\ (t.queued \/ (t.alarm # 0 /\ t.alarm <= since + MaxAckDelay))

(* 0-RTT packets are refused only when sent after a 1-RTT packet.          *)
HonestZeroRTTAccepted == refused = {}

(* No packet is processed twice.                                           *)
NothingProcessedTwice == twice = {}

(* What is acknowledged was received, and what was received is             *)
(* acknowledged in time (ReceivedPacketHandler).                           *)
AcksExact ==
  /\ TypeOK
  /\ RangesExact
  /\ HighestMissingExact
  /\ AckWithinDelay
  /\ HonestZeroRTTAccepted
=============================================================================
