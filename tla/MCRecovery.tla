----------------------------- MODULE MCRecovery -----------------------------
(***************************************************************************)
(* What a QUIC connection knows of its packets and its path: loss recovery *)
(* and congestion control, ECN validation, the packets received and their  *)
(* acknowledgement, the estimates of the path, and the packer that fills   *)
(* the datagrams.  A behaviour is one of one part; the others keep their   *)
(* first state.                                                            *)
(***************************************************************************)
EXTENDS Integers, Sequences, FiniteSets

CONSTANTS Parts,
          LossConfigs, InitialWindow, MaxWindow, HybridLowWindow, HybridMinSamples, MaxSkippedPackets, MaxTrackedLostPackets,
          RTT, PTOBase, MaxAckDelay, MaxPTODuration, PathProbeTimeout, MaxTrackedSentPackets, MaxOutstandingSentPackets,
          NumECNTestingPackets, MaxSent, PathKinds, Probed,
          MaxNumAckRanges, MaxPN, MaxAckTime,
          DefaultInitialRTT, TimerGranularity, MinPacingDelay, MaxBurstSizePackets, Second, Deltas, Delays, Rates, Sizes,
          MaxSamples, MaxPacingTime,
          PackerScenarios, MaxSize, LongHeader, ShortHeader, Overhead, MinPayload, CryptoHeader, StreamHeader, AckLen, PingLen,
          ControlLen, CloseLen, MinCoalescedPacketSize, MinStreamFrameSize, MaxNonAckElicitingAcks

VARIABLES part, cfg, h, keys, now, void, event,
          e, path, sent, tracked, lost, seen, acks, largest,
          t, rnow, first1RTT, got, evicted, twice, since, sentAcks, refused,
          r, p, pnow, samples, extremes,
          sc, pkeys, confirmed, src, inflight, acked, left, last, ackRun, err

Loss == INSTANCE LossRecovery WITH Configs <- LossConfigs
ECN == INSTANCE ECNTracker WITH Paths <- PathKinds, got <- seen
Acks == INSTANCE ReceivedPackets WITH MaxTime <- MaxAckTime, now <- rnow
Estimates == INSTANCE PathEstimates WITH MaxTime <- MaxPacingTime, now <- pnow
Packer == INSTANCE PacketPacker WITH Scenarios <- PackerScenarios, keys <- pkeys

lossVars == <<cfg, h, keys, now, void, event>>
ecnVars == <<e, path, sent, tracked, lost, seen, acks, largest>>
ackVars == <<t, rnow, first1RTT, got, evicted, twice, since, sentAcks, refused>>
estimateVars == <<r, p, pnow, samples, extremes>>
packerVars == <<sc, pkeys, confirmed, src, inflight, acked, left, last, ackRun, err>>
all == <<part, lossVars, ecnVars, ackVars, estimateVars, packerVars>>

One(S) == CHOOSE x \in S : TRUE
Init ==
  /\ part \in Parts
  /\ part = "loss" \/ cfg = One(LossConfigs)
  /\ part = "ecn" \/ path = One(PathKinds)
  /\ part = "acks" \/ first1RTT = 0
  /\ part = "packer" \/ sc = One(PackerScenarios)
  /\ Loss!Init /\ ECN!Init /\ Acks!Init /\ Estimates!Init /\ Packer!Init

ButLoss == <<part, ecnVars, ackVars, estimateVars, packerVars>>
ButECN == <<part, lossVars, ackVars, estimateVars, packerVars>>
ButAcks == <<part, lossVars, ecnVars, estimateVars, packerVars>>
ButEstimates == <<part, lossVars, ecnVars, ackVars, packerVars>>
ButPacker == <<part, lossVars, ecnVars, ackVars, estimateVars>>
Next ==
  \/ part = "loss" /\ Loss!Next /\ UNCHANGED ButLoss
  \/ part = "ecn" /\ ECN!Next /\ UNCHANGED ButECN
  \/ part = "acks" /\ Acks!Next /\ UNCHANGED ButAcks
  \/ part = "estimates" /\ Estimates!Next /\ UNCHANGED ButEstimates
  \/ part = "packer" /\ Packer!Next /\ UNCHANGED ButPacker
Spec == Init /\ [][Next]_all

AcksExact == part = "acks" => Acks!AcksExact
PacketsSound == part = "packer" => Packer!PacketsSound

-----------------------------------------------------------------------------
(* Loss recovery: losses and spurious losses on a confirmed connection,    *)
(* packets of all kinds and skipped numbers, probing another path and      *)
(* moving to it, a client and a server in the handshake.                   *)
Lossy == [client |-> TRUE, early |-> FALSE, confirmed |-> TRUE, packets |-> 6, kinds |-> {"data"}, waits |-> {10},
          until |-> 21, skip |-> 10, events |-> {}, bytes |-> 0, ptos |-> 1]
L1 == {[Lossy EXCEPT !.until = 12], [Lossy EXCEPT !.packets = 5]}
L2 == {[Lossy EXCEPT !.kinds = {"ack", "data", "mtu"}, !.packets = 5, !.skip = 2]}
L3 == {[Lossy EXCEPT !.events = {"probe", "migrate"}, !.packets = 5]}
L4 == {[Lossy EXCEPT !.confirmed = FALSE, !.early = TRUE, !.events = {"retry"}, !.packets = 4, !.waits = {}]}
L5 == {[Lossy EXCEPT !.confirmed = FALSE, !.client = FALSE, !.bytes = 2, !.packets = 4, !.waits = {}]}
MCLossConfigs == L1 \cup L2 \cup L3 \cup L4 \cup L5

(* The packer: a client and a server in the handshake (data for two        *)
(* datagrams per level, losses and probes), a connection with 1-RTT data   *)
(* of all kinds, and a client with 0-RTT data, a Retry and a rejection.    *)
Bytes(i, hs) == [l \in {"Initial", "Handshake"} |-> IF l = "Initial" THEN i ELSE hs]
Client == [server |-> FALSE, early |-> FALSE, retry |-> FALSE, crypto |-> Bytes(15, 4), ctl |-> <<>>,
           data |-> 0, dgs |-> <<>>, rcv |-> 1, lose |-> 1, probe |-> 1, reasons |-> {1}]
Server == [Client EXCEPT !.server = TRUE, !.crypto = Bytes(6, 14)]
Acking == [Client EXCEPT !.crypto = Bytes(0, 0), !.rcv = 4, !.lose = 0, !.probe = 2, !.reasons = {}]
Sending == [Acking EXCEPT !.ctl = <<"response">>, !.data = 6, !.rcv = 1, !.lose = 1, !.probe = 1, !.dgs = <<13>>]
Early == [Client EXCEPT !.early = TRUE, !.retry = TRUE, !.crypto = Bytes(4, 0), !.ctl = <<"blocked", "control">>, !.rcv = 0,
                        !.data = 4, !.reasons = {}]
EarlyLossy == [Early EXCEPT !.data = 0, !.lose = 2]
MCPackerScenarios == {Client, Server, Acking, Sending, Early, EarlyLossy}
=============================================================================
