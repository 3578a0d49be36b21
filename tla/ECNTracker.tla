----------------------------- MODULE ECNTracker ----------------------------
(***************************************************************************)
(* ECN validation (ecn.go) and the path it is about.  The first testing    *)
(* packets and, once the path has proved capable, all others are marked    *)
(* ECT(0).  The path delivers, drops, congestion-marks (CE), bleaches or   *)
(* mangles them; the peer reports how often it saw each mark.              *)
(***************************************************************************)
EXTENDS Integers, FiniteSets

CONSTANTS NumECNTestingPackets, MaxSent,
          Paths,   \* "clean", "bleaching" or "mangling"
          Probed   \* the paths of connections that send path probe packets, too

NoPN == -1

newECNTracker == [state |-> "initial", why |-> "", numSentTesting |-> 0, numLostTesting |-> 0,
                  first |-> NoPN, last |-> NoPN, capable |-> NoPN, sentECT0 |-> 0, ackedECT0 |-> 0, ackedCE |-> 0]

(* Mode moves the tracker from the initial state to testing.               *)
AfterMode(e) == IF e.state = "initial" THEN [e EXCEPT !.state = "testing"] ELSE e
Mode(e) == IF AfterMode(e).state \in {"testing", "capable"} THEN "ECT0" ELSE "Non"

Testing(e, pn) ==
  LET f == [e EXCEPT !.numSentTesting = @ + 1, !.first = IF @ = NoPN THEN pn ELSE @]
  IN IF f.sentECT0 >= NumECNTestingPackets THEN [f EXCEPT !.state = "unknown", !.last = pn] ELSE f
SentPacket(e, pn, mark) ==
  IF mark = "Non" THEN e
  ELSE LET f == [e EXCEPT !.sentECT0 = @ + 1, !.capable = IF e.state = "capable" /\ @ = NoPN THEN pn ELSE @]
       IN IF e.state = "testing" THEN Testing(f, pn) ELSE f

Failed(e, why) == [e EXCEPT !.state = "failed", !.why = why]
failIfMangled(e) == IF e.sentECT0 > e.ackedCE + e.numLostTesting THEN e ELSE Failed(e, "mangling")

isTestingPacket(e, pn) == e.first # NoPN /\ pn >= e.first /\ (pn <= e.last \/ e.last = NoPN)
LostPacket(e, pn) ==
  IF e.state \notin {"testing", "unknown"} \/ ~isTestingPacket(e, pn) THEN e
  ELSE LET f == [e EXCEPT !.numLostTesting = @ + 1]
       IN IF f.state # "unknown" THEN f
          ELSE IF f.numLostTesting >= f.numSentTesting THEN Failed(f, "all lost")
          ELSE failIfMangled(f)

ecnMarking(e, pn) ==
  IF pn < e.first \/ e.first = NoPN THEN "Non"
  ELSE IF pn < e.last \/ e.last = NoPN THEN "ECT0"
  ELSE IF pn < e.capable \/ e.capable = NoPN THEN "Non"
  ELSE "ECT0"

Confirmed(e, pns, newECT0) ==
  IF e.state \in {"testing", "unknown"} /\ newECT0 > 0 /\ \E pn \in pns : isTestingPacket(e, pn)
  THEN [e EXCEPT !.state = "capable"] ELSE e
CountedAck(e, pns, newECT0) ==
  LET f == IF e.state = "unknown" THEN failIfMangled(e) ELSE e
  IN IF f.state = "failed" THEN f ELSE Confirmed(f, pns, newECT0)
HandleNewlyAcked(e, pns, ect0, ce) ==
  LET acked == Cardinality({pn \in pns : ecnMarking(e, pn) = "ECT0"})
  IN IF e.state = "failed" THEN e
     ELSE IF ect0 > e.sentECT0 THEN Failed(e, "more counts than sent")
     ELSE IF acked > 0 /\ ect0 = 0 /\ ce = 0 THEN Failed(e, "no counts")
     ELSE IF ect0 < e.ackedECT0 \/ ce < e.ackedCE THEN Failed(e, "counts decreased")
     ELSE IF ect0 - e.ackedECT0 + ce - e.ackedCE < acked THEN Failed(e, "too few counts")
     ELSE CountedAck([e EXCEPT !.ackedECT0 = ect0, !.ackedCE = ce], pns, ect0 - e.ackedECT0)

----------------------------------------------------------------------------

VARIABLES e,        \* the tracker
          path,     \* what the path does to the marks
          sent,     \* the mark of every packet sent, by number from 0
          tracked,  \* packets neither acknowledged nor declared lost
          lost,     \* packets declared lost
          got,      \* packets the peer got, each with the mark it saw
          acks,     \* ACK frames on their way: the packets and the counts
          largest   \* largest acknowledged

vars == <<e, path, sent, tracked, lost, got, acks, largest>>

Init ==
  /\ e = newECNTracker /\ path \in Paths /\ sent = [pn \in {} |-> ""] /\ tracked = {} /\ lost = {}
  /\ got = [pn \in {} |-> ""] /\ acks = {} /\ largest = NoPN

PN == Cardinality(DOMAIN sent)
With(f, x, v) == [y \in DOMAIN f \cup {x} |-> IF y = x THEN v ELSE f[y]]

Send ==
  /\ PN < MaxSent
  /\ sent' = With(sent, PN, Mode(e))
  /\ e' = SentPacket(AfterMode(e), PN, Mode(e))
  /\ tracked' = tracked \cup {PN}
  /\ UNCHANGED <<path, lost, got, acks, largest>>

(* A path probe packet carries no mark; SentPacket of the sent packet      *)
(* handler returns before it tells the tracker.                            *)
SendPathProbe ==
  /\ path \in Probed /\ PN < MaxSent
  /\ sent' = With(sent, PN, "Non")
  /\ tracked' = tracked \cup {PN}
  /\ UNCHANGED <<e, path, lost, got, acks, largest>>

Seen(mark) == IF mark = "Non" \/ path = "bleaching" THEN {"Non"} ELSE IF path = "mangling" THEN {"CE"} ELSE {mark, "CE"}
Deliver ==
  \E pn \in DOMAIN sent \ DOMAIN got, mark \in {"ECT0", "CE", "Non"} :
    /\ mark \in Seen(sent[pn])
    /\ got' = With(got, pn, mark)
    /\ UNCHANGED <<e, path, sent, tracked, lost, acks, largest>>

Count(mark) == Cardinality({pn \in DOMAIN got : got[pn] = mark})
PeerAcks ==
  /\ DOMAIN got # {}
  /\ acks' = acks \cup {[pns |-> DOMAIN got, ect0 |-> Count("ECT0"), ce |-> Count("CE")]}
  /\ acks' # acks
  /\ UNCHANGED <<e, path, sent, tracked, lost, got, largest>>

Top(pns) == CHOOSE pn \in pns : \A q \in pns : q <= pn
ReceiveAck ==
  \E a \in acks :
    /\ acks' = acks \ {a}
    /\ tracked' = tracked \ a.pns
    /\ e' = IF a.pns \cap tracked # {} /\ Top(a.pns) > largest THEN HandleNewlyAcked(e, a.pns \cap tracked, a.ect0, a.ce) ELSE e
    /\ largest' = IF a.pns \cap tracked # {} /\ Top(a.pns) > largest THEN Top(a.pns) ELSE largest
    /\ UNCHANGED <<path, sent, lost, got>>

DeclareLost ==
  \E pn \in tracked :
    /\ pn < largest
    /\ tracked' = tracked \ {pn} /\ lost' = lost \cup {pn}
    /\ e' = LostPacket(e, pn)
    /\ UNCHANGED <<path, sent, got, acks, largest>>

Next == Send \/ SendPathProbe \/ Deliver \/ PeerAcks \/ ReceiveAck \/ DeclareLost

Spec == Init /\ [][Next]_vars

----------------------------------------------------------------------------

TypeOK ==
  /\ e.state \in {"initial", "testing", "unknown", "capable", "failed"}
  /\ e.sentECT0 \in 0 .. MaxSent /\ e.numLostTesting \in 0 .. MaxSent /\ tracked \subseteq DOMAIN sent

(* A clean path, which changes a mark only to signal congestion, and a     *)
(* peer that counts what it got, are never found to have erased, invented  *)
(* or miscounted marks, however packets and ACK frames are delayed,        *)
(* reordered and lost.                                                     *)
CleanPathValid == path = "clean" /\ e.state = "failed" => e.why \in {"all lost", "mangling"}

(* Validation fails for loss or mangling only if every testing packet was  *)
(* declared lost or congestion-marked (the comment on failIfMangled).      *)
FailsOnlyIfAllBad ==
  e.state = "failed" /\ e.why \in {"all lost", "mangling"} =>
    \A pn \in DOMAIN sent : isTestingPacket(e, pn) /\ sent[pn] = "ECT0" => pn \in lost \/ (pn \in DOMAIN got /\ got[pn] = "CE")

(* A path that erases marks, or turns all of them into CE, is never taken  *)
(* to be capable.                                                          *)
BadPathNotCapable == path # "clean" => e.state # "capable"

(* Marks are only sent while testing and on a path found capable: what the *)
(* tracker takes a packet to have been sent with is never less than it was *)
(* (but for path probes, which it does not know of).                       *)
MarksRemembered == e.state # "failed" /\ path \notin Probed => \A pn \in tracked : ecnMarking(e, pn) = "ECT0" => sent[pn] = "ECT0"

=============================================================================
