------------------------------ MODULE MTUFinder ----------------------------
(***************************************************************************)
(* Path MTU discovery (mtu_discoverer.go): probes of larger sizes, one at  *)
(* a time.  A probe that is acknowledged raises the minimum; the sizes of  *)
(* the last three losses, sorted, bound the search from above.             *)
(***************************************************************************)
EXTENDS Integers, Sequences, SequencesExt, FiniteSets

CONSTANTS Start, Limit,   \* the initial packet size and the largest MTU
          MTUs,           \* the MTUs a path may have
          MaxMTUDiff,     \* the accuracy of the search
          MaxStray,       \* bound: probes lost for another reason than their size
          MaxResets       \* bound: migrations to another path

MaxLostMTUProbes == 3
InvalidByteCount == -1

newMTUFinder(start, max) ==
  [inFlight |-> InvalidByteCount, min |-> start,
   lost |-> [i \in 1 .. MaxLostMTUProbes |-> IF i = 1 THEN max ELSE InvalidByteCount],
   lastLost |-> FALSE, started |-> FALSE]

MaxSize(f) == LET known == {i \in DOMAIN f.lost : f.lost[i] # InvalidByteCount} IN f.lost[Cardinality(known)]
done(f) == MaxSize(f) - f.min <= MaxMTUDiff + 1
ShouldSendProbe(f) == f.started /\ f.inFlight = InvalidByteCount /\ ~done(f)

ProbeSize(f) == (f.min + (IF f.lastLost THEN f.lost[1] ELSE MaxSize(f))) \div 2
GetPing(f) == [f EXCEPT !.inFlight = ProbeSize(f)]

(* The first place whose value is above the size; 0 if there is none.      *)
Above(f, size) == SelectInSeq(f.lost, LAMBDA v : size < v)

Shifted(f, j) == [i \in DOMAIN f.lost |-> IF i + j <= MaxLostMTUProbes THEN f.lost[i + j] ELSE InvalidByteCount]
OnAcked(f) ==
  [f EXCEPT !.inFlight = InvalidByteCount, !.min = f.inFlight, !.lastLost = FALSE,
            !.lost = IF Above(f, f.inFlight) > 1 THEN Shifted(f, Above(f, f.inFlight) - 1) ELSE @]

OnLost(f) ==
  [f EXCEPT !.inFlight = InvalidByteCount, !.lastLost = TRUE,
            !.lost = IF Above(f, f.inFlight) = 0 THEN @
                     ELSE SubSeq(InsertAt(@, Above(f, f.inFlight), f.inFlight), 1, MaxLostMTUProbes)]

----------------------------------------------------------------------------

VARIABLES f,       \* the finder
          mtu,     \* the MTU of the path
          probes,  \* sizes of the probe packets in the sender's history
          resets,  \* the finder's generation
          stray,   \* probes lost on this path although they fit
          panicked

vars == <<f, mtu, probes, resets, stray, panicked>>

Init ==
  /\ f = newMTUFinder(Start, Limit) /\ mtu \in MTUs
  /\ probes = {} /\ resets = 0 /\ stray = 0 /\ panicked = FALSE

Started ==
  /\ ~f.started
  /\ f' = [f EXCEPT !.started = TRUE]
  /\ UNCHANGED <<mtu, probes, resets, stray, panicked>>

SendProbe ==
  /\ ShouldSendProbe(f)
  /\ f' = GetPing(f)
  /\ probes' = probes \cup {ProbeSize(f)}
  /\ UNCHANGED <<mtu, resets, stray, panicked>>

(* The frame handler panics when there is no probe in flight.              *)
Handled(g) ==
  /\ f' = IF f.inFlight = InvalidByteCount THEN f ELSE g
  /\ panicked' = (panicked \/ f.inFlight = InvalidByteCount)

ProbeAcked ==
  \E size \in probes :
    /\ size <= mtu
    /\ probes' = probes \ {size}
    /\ Handled(OnAcked(f))
    /\ UNCHANGED <<mtu, resets, stray>>

ProbeLost ==
  \E size \in probes :
    /\ size > mtu \/ stray < MaxStray
    /\ probes' = probes \ {size}
    /\ stray' = IF size <= mtu THEN stray + 1 ELSE stray
    /\ Handled(OnLost(f))
    /\ UNCHANGED <<mtu, resets>>

ResetKeepingSize ==
  /\ resets < MaxResets
  /\ f' = newMTUFinder(f.min, Limit)
  /\ mtu' \in MTUs /\ stray' = 0 /\ probes' = {} /\ resets' = resets + 1
  /\ panicked' = (panicked \/ (probes # {} /\ f.inFlight = InvalidByteCount))

(* Migration to another path: MigratedPath has just called OnLost for the  *)
(* probe in the history, so that no handler of an earlier generation is    *)
(* left to be called.                                                      *)
Reset ==
  /\ resets < MaxResets
  /\ f' = newMTUFinder(Start, Limit)
  /\ mtu' \in MTUs /\ stray' = 0 /\ probes' = {} /\ resets' = resets + 1
  /\ panicked' = (panicked \/ (probes # {} /\ f.inFlight = InvalidByteCount))

Next == Started \/ SendProbe \/ ProbeAcked \/ ProbeLost \/ Reset

Search == Started \/ SendProbe \/ ProbeAcked \/ ProbeLost
Spec == Init /\ [][Next]_vars /\ WF_vars(Search)

----------------------------------------------------------------------------

TypeOK ==
  /\ f.min \in Start .. Limit /\ f.inFlight \in {InvalidByteCount} \cup (Start .. Limit) /\ stray \in Nat
  /\ panicked = FALSE

(* The size in use always fits the path, also after migrations during a    *)
(* probe.                                                                  *)
SizeFitsPath == f.min <= mtu

(* As long as fewer than three probes that fit were lost, the search does  *)
(* not give up the path's MTU (mtu_discoverer.go: resilient to the loss of *)
(* maxLostMTUProbes - 1 packets).                                          *)
ResilientToLoss ==
  /\ f.lost[1] # InvalidByteCount
  /\ \A i \in 1 .. MaxLostMTUProbes - 1 : f.lost[i + 1] # InvalidByteCount => f.lost[i] <= f.lost[i + 1]
  /\ stray < MaxLostMTUProbes => MaxSize(f) >= mtu

(* The search ends, after every migration again.                           *)
SearchOver == f.started /\ done(f)

(* The search never leaves the range it has evidence for (mtuFinder).      *)
SizeSound ==
  /\ TypeOK
  /\ SizeFitsPath
  /\ ResilientToLoss
=============================================================================
