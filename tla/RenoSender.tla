---------------------------- MODULE RenoSender -----------------------------
(***************************************************************************)
(* The congestion controller (cubic_sender.go, which connections use with  *)
(* reno = true, and hybrid_slow_start.go), in units of one datagram.  A    *)
(* cutback saves the state before it; it is undone once every loss that    *)
(* was counted for it has turned out to be spurious.                       *)
(***************************************************************************)
EXTENDS Integers

CONSTANTS InitialWindow,     \* initialCongestionWindow, in packets
          MaxWindow,         \* MaxCongestionWindowPackets
          HybridLowWindow,   \* hybridStartLowWindow
          HybridMinSamples   \* hybridStartMinSamples

MinWindow == 2
MaxBurstPackets == 3
Unlimited == 1000000  \* slowStartThreshold before the first cutback

NoUndo == [cwnd |-> 0, ssthresh |-> 0, numAcked |-> 0, cutback |-> 0, events |-> 0]

newCubicSender ==
  [cwnd |-> InitialWindow, ssthresh |-> Unlimited, largestSent |-> -1, largestAcked |-> -1, cutback |-> -1,
   numAcked |-> 0, undo |-> NoUndo, end |-> 0, last |-> 0, started |-> FALSE, samples |-> 0, found |-> FALSE]

InSlowStart(c) == c.cwnd < c.ssthresh
InRecovery(c) == c.largestAcked # -1 /\ c.largestAcked <= c.cutback
CanSend(c, inFlight) == inFlight < c.cwnd

OnPacketSent(c, pn, retransmittable) ==
  IF retransmittable THEN [c EXCEPT !.largestSent = pn, !.last = pn] ELSE c

(* HybridSlowStart.ShouldExitSlowStart; slower says whether the smallest   *)
(* RTT of the round is above the threshold when it is looked at.           *)
Sampled(c, slower) ==
  LET started == IF c.started THEN c ELSE [c EXCEPT !.end = c.last, !.samples = 0, !.started = TRUE]
  IN IF c.found THEN started
     ELSE [started EXCEPT !.samples = @ + 1, !.found = started.samples + 1 = HybridMinSamples /\ slower]
ShouldExit(c) == c.found /\ c.cwnd >= HybridLowWindow
MaybeExitSlowStart(c, slower) ==
  IF ~InSlowStart(c) THEN c
  ELSE LET d == Sampled(c, slower)
       IN IF c.found \/ ShouldExit(d) THEN [d EXCEPT !.ssthresh = d.cwnd] ELSE d

isCwndLimited(c, inFlight) ==
  \/ inFlight >= c.cwnd
  \/ InSlowStart(c) /\ inFlight > c.cwnd \div 2
  \/ c.cwnd - inFlight <= MaxBurstPackets

maybeIncreaseCwnd(c, inFlight) ==
  IF ~isCwndLimited(c, inFlight) \/ c.cwnd >= MaxWindow THEN c
  ELSE IF InSlowStart(c) THEN [c EXCEPT !.cwnd = @ + 1]
  ELSE IF c.numAcked + 1 >= c.cwnd THEN [c EXCEPT !.cwnd = @ + 1, !.numAcked = 0]
  ELSE [c EXCEPT !.numAcked = @ + 1]

RoundEnds(c, pn) == IF InSlowStart(c) /\ c.end < pn THEN [c EXCEPT !.started = FALSE] ELSE c
OnPacketAcked(cc, pn, inFlight) ==
  LET c == [cc EXCEPT !.largestAcked = IF pn > @ THEN pn ELSE @]
  IN IF InRecovery(c) THEN c ELSE RoundEnds(maybeIncreaseCwnd(c, inFlight), pn)

Cutback(c) ==
  LET cwnd == IF (c.cwnd * 7) \div 10 < MinWindow THEN MinWindow ELSE (c.cwnd * 7) \div 10
  IN [c EXCEPT !.undo = [cwnd |-> c.cwnd, ssthresh |-> c.ssthresh, numAcked |-> c.numAcked, cutback |-> c.cutback, events |-> 1],
               !.cwnd = cwnd, !.ssthresh = cwnd, !.cutback = c.largestSent, !.numAcked = 0]

OnCongestionEvent(c, pn) ==
  IF pn > c.cutback THEN Cutback(c)
  ELSE IF c.undo.events > 0 /\ pn > c.undo.cutback THEN [c EXCEPT !.undo.events = @ + 1]
  ELSE c

Undone(c) ==
  IF c.cwnd > c.undo.cwnd THEN [c EXCEPT !.undo = NoUndo]
  ELSE [c EXCEPT !.cwnd = c.undo.cwnd, !.ssthresh = c.undo.ssthresh, !.numAcked = c.undo.numAcked,
                 !.cutback = c.undo.cutback, !.undo = NoUndo]

OnSpuriousLoss(c, pn) ==
  IF c.undo.events = 0 \/ pn <= c.undo.cutback \/ pn > c.cutback THEN c
  ELSE IF c.undo.events > 1 THEN [c EXCEPT !.undo.events = @ - 1]
  ELSE Undone(c)
=============================================================================
