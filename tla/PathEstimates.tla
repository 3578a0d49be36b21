---------------------------- MODULE PathEstimates --------------------------
(***************************************************************************)
(* What the sender knows of its path: the round-trip times (rtt_stats.go,  *)
(* in microseconds, to which the code rounds) and the budget of the pacer  *)
(* (pacer.go), a token bucket filled at the pacing rate.                   *)
(***************************************************************************)
EXTENDS Integers

CONSTANTS DefaultInitialRTT, TimerGranularity, MinPacingDelay, MaxBurstSizePackets,
          Second,      \* units of time in a second
          Deltas,      \* the send deltas that are measured
          Delays,      \* the ACK delays that the peer reports
          Rates,       \* pacing rates, in bytes per second
          Sizes,       \* datagram sizes, of which the first is in use at the start
          MaxSamples, MaxTime

Larger(a, b) == IF a > b THEN a ELSE b
Smaller(a, b) == IF a < b THEN a ELSE b
Abs(a) == IF a < 0 THEN -a ELSE a

NewRTTStats == [has |-> FALSE, min |-> DefaultInitialRTT, latest |-> DefaultInitialRTT, smoothed |-> DefaultInitialRTT, dev |-> 0]

PTO(r, maxAckDelay) == IF ~r.has THEN 2 * DefaultInitialRTT ELSE r.smoothed + Larger(4 * r.dev, TimerGranularity) + maxAckDelay

Sample(min, sendDelta, ackDelay) == IF sendDelta - min >= ackDelay THEN sendDelta - ackDelay ELSE sendDelta
Smoothed(r, min, sample) ==
  IF ~r.has THEN [has |-> TRUE, min |-> min, latest |-> sample, smoothed |-> sample, dev |-> sample \div 2]
  ELSE [r EXCEPT !.min = min, !.latest = sample, !.dev = (3 * @ + Abs(r.smoothed - sample)) \div 4, !.smoothed = (7 * @ + sample) \div 8]
UpdateRTT(r, sendDelta, ackDelay) ==
  IF sendDelta <= 0 THEN r
  ELSE LET min == IF ~r.has \/ r.min > sendDelta THEN sendDelta ELSE r.min
       IN Smoothed(r, min, Sample(min, sendDelta, ackDelay))

SetInitialRTT(r, rtt) == IF r.has THEN r ELSE [r EXCEPT !.smoothed = rtt, !.latest = rtt]
ResetForPathMigration == NewRTTStats

----------------------------------------------------------------------------

newPacer(size) == [budget |-> 0, size |-> size, last |-> 0]

timeScaledBandwidth(d, rate) == (rate * d) \div Second
maxBurstSize(p, rate) == Larger(timeScaledBandwidth(MinPacingDelay + TimerGranularity, rate), MaxBurstSizePackets * p.size)
Budget(p, now, rate) ==
  IF p.last = 0 THEN maxBurstSize(p, rate)
  ELSE Smaller(maxBurstSize(p, rate), p.budget + (IF now > p.last THEN timeScaledBandwidth(now - p.last, rate) ELSE 0))
SentPacket(p, now, bytes, rate) ==
  [p EXCEPT !.budget = IF bytes >= Budget(p, now, rate) THEN 0 ELSE Budget(p, now, rate) - bytes, !.last = now]

(* The division is rounded up.                                             *)
TimeUntilSend(p, rate) ==
  IF p.last = 0 \/ p.budget >= p.size THEN 0
  ELSE LET diff == Second * (p.size - p.budget)
       IN p.last + Larger(MinPacingDelay, diff \div rate + (IF diff % rate > 0 THEN 1 ELSE 0))

----------------------------------------------------------------------------

VARIABLES r, p, now, samples,
          extremes  \* the smallest and largest RTT sample or default since the path is in use

vars == <<r, p, now, samples, extremes>>

Init ==
  /\ r = NewRTTStats /\ p = newPacer(CHOOSE s \in Sizes : \A q \in Sizes : s <= q)
  /\ now = 1 /\ samples = 0 /\ extremes = <<DefaultInitialRTT, DefaultInitialRTT>>

Measure ==
  \E sendDelta \in Deltas, ackDelay \in Delays :
    /\ samples < MaxSamples /\ samples' = samples + 1
    /\ r' = UpdateRTT(r, sendDelta, ackDelay)
    /\ extremes' = IF sendDelta <= 0 THEN extremes
                   ELSE IF ~r.has THEN <<sendDelta, sendDelta>>
                   ELSE <<Smaller(extremes[1], sendDelta), Larger(extremes[2], sendDelta)>>
    /\ UNCHANGED <<p, now>>

RestoreRTT ==
  \E rtt \in Deltas :
    /\ rtt > 0 /\ samples = 0 /\ r' = SetInitialRTT(r, rtt)
    /\ UNCHANGED <<p, now, samples, extremes>>

Migrate ==
  /\ r' = ResetForPathMigration /\ p' = newPacer(p.size) /\ samples' = samples
  /\ extremes' = <<DefaultInitialRTT, DefaultInitialRTT>>
  /\ UNCHANGED now

(* HasPacingBudget holds, or the packet is a retransmission or an ACK.     *)
SendPacket ==
  \E bytes \in 1 .. p.size, rate \in Rates :
    /\ p' = SentPacket(p, now, bytes, rate)
    /\ UNCHANGED <<r, now, samples, extremes>>

SetMaxDatagramSize ==
  \E size \in Sizes :
    /\ size > p.size /\ p' = [p EXCEPT !.size = size]
    /\ UNCHANGED <<r, now, samples, extremes>>

Wait ==
  /\ now < MaxTime /\ now' = now + 1
  /\ UNCHANGED <<r, p, samples, extremes>>

Next == Measure \/ RestoreRTT \/ Migrate \/ SendPacket \/ SetMaxDatagramSize \/ Wait

Spec == Init /\ [][Next]_vars

----------------------------------------------------------------------------

TypeOK == r.dev \in Nat /\ r.smoothed \in Nat /\ p.budget \in Nat /\ p.last \in 0 .. now

(* The estimates stay within what was measured: corrected for the peer's   *)
(* ACK delay, a sample is never below the smallest RTT, so neither is the  *)
(* smoothed RTT, rounding included; and it never exceeds the largest one.  *)
EstimatesWithinSamples ==
  r.has => /\ r.min = extremes[1] /\ r.latest >= r.min
           /\ r.smoothed >= r.min /\ r.smoothed <= extremes[2]
           /\ PTO(r, 0) > r.smoothed

(* When the pacing timer expires there is budget for a datagram, at any    *)
(* rate: the rounding of the delay and of the budget do not add up to a    *)
(* budget one byte short, for which the sender would wait again.           *)
BudgetWhenDue ==
  \A rate \in Rates : Budget(p, Larger(now, TimeUntilSend(p, rate)), rate) >= p.size

=============================================================================
