------------------------------ MODULE MCStreams -----------------------------
(***************************************************************************)
(* What a connection sends and puts together again: a stream from Write to *)
(* Read, the framer, the frame sorter, the crypto stream, and the search   *)
(* for a larger packet size.  A behaviour is one of one part; the others   *)
(* keep their first state.                                                 *)
(***************************************************************************)
EXTENDS Integers, Sequences, FiniteSets

CONSTANTS Parts,
          TransferConfigs, MaxWindowSize, MaxPacketBufferSize, MaxByteCount, MinStreamFrameBufferSize, MaxStreamFrameSorterGaps,
          FramerScenarios, Streams, Urgencies, Room, MaxData, MaxControlFrames, MaxPathResponses,
          StreamLen, MaxPushes, CryptoScenarios, EchCut, FrameHeader,
          Start, Limit, MTUs, MaxMTUDiff, MaxStray, MaxResets

VARIABLES part, cfg, s, sfc, framer, x, control, net, back, losses, wrote, read, end, connErr,
          fsc, f, prio, data, given, win, lost, credit, canceled, done, calls, packet,
          fs, received, out, released, reading, csc, send, sent, rcv,
          finder, mtu, probes, resets, stray, panicked

Transfer == INSTANCE StreamTransfer WITH Configs <- TransferConfigs
Framing == INSTANCE Framer WITH Scenarios <- FramerScenarios, sc <- fsc
Sorting == INSTANCE FrameSorterUse
Crypto == INSTANCE CryptoStream WITH Scenarios <- CryptoScenarios, sc <- csc
MTU == INSTANCE MTUFinder WITH f <- finder

transferVars == <<cfg, s, sfc, framer, x, control, net, back, losses, wrote, read, end, connErr>>
framerVars == <<fsc, f, prio, data, given, win, lost, credit, canceled, done, calls, packet>>
sorterVars == <<fs, received, out, released, reading>>
cryptoVars == <<csc, send, sent, rcv>>
mtuVars == <<finder, mtu, probes, resets, stray, panicked>>
all == <<part, transferVars, framerVars, sorterVars, cryptoVars, mtuVars>>
One(S) == CHOOSE e \in S : TRUE
Init ==
  /\ part \in Parts
  /\ part = "transfer" \/ cfg = One(TransferConfigs)
  /\ part = "framer" \/ fsc = One(FramerScenarios)
  /\ part = "crypto" \/ csc = One(CryptoScenarios)
  /\ part = "mtu" \/ mtu = One(MTUs)
  /\ Transfer!Init /\ Framing!Init /\ Sorting!Init /\ Crypto!Init /\ MTU!Init

ButTransfer == <<part, framerVars, sorterVars, cryptoVars, mtuVars>>
ButFraming == <<part, transferVars, sorterVars, cryptoVars, mtuVars>>
ButSorting == <<part, transferVars, framerVars, cryptoVars, mtuVars>>
ButCrypto == <<part, transferVars, framerVars, sorterVars, mtuVars>>
ButMTU == <<part, transferVars, framerVars, sorterVars, cryptoVars>>
Next ==
  \/ part = "transfer" /\ Transfer!Next /\ UNCHANGED ButTransfer
  \/ part = "framer" /\ Framing!Next /\ UNCHANGED ButFraming
  \/ part = "sorter" /\ Sorting!Next /\ UNCHANGED ButSorting
  \/ part = "crypto" /\ Crypto!Next /\ UNCHANGED ButCrypto
  \/ part = "mtu" /\ MTU!Next /\ UNCHANGED ButMTU

(* The fairness of each part, see there.                                   *)
Progress ==
  \/ part = "transfer" /\ Transfer!Progress /\ UNCHANGED ButTransfer
  \/ part = "mtu" /\ MTU!Search /\ UNCHANGED ButMTU
FramerWorks == part = "framer" /\ Framing!Progress /\ UNCHANGED ButFraming
Spec == Init /\ [][Next]_all
FairSpec ==
  /\ Spec /\ WF_all(Progress)
  /\ []<>(~(part = "framer" /\ Framing!HasWork)) \/ []<><<FramerWorks>>_all

(* The properties of the parts, explained there: a stream, the framer, the *)
(* reassembly of CRYPTO data and the search for a packet size.             *)
StreamExact == part = "transfer" => Transfer!StreamExact
ImplementsStream == Transfer!ImplementsStream
StreamCompletes == part = "transfer" => Transfer!StreamCompletes
StreamsScheduled == part = "framer" => Framing!StreamsScheduled
BytesReassembled ==
  /\ part = "sorter" => Sorting!BytesReassembled
  /\ part = "crypto" => Crypto!BytesReassembled
SizeSound == part = "mtu" => MTU!SizeSound


-----------------------------------------------------------------------------
(* A stream of three bytes over windows that close, with a lost packet, a  *)
(* deadline or a shutdown; cancelled on either side; written without       *)
(* blocking; reset with a part that is delivered reliably.                 *)
Stream == [len |-> 3, calls |-> {"Close"}, window |-> 2, connWindow |-> 2, resetAt |-> FALSE, late |-> FALSE,
           unaware |-> FALSE, rooms |-> {2}, again |-> {2}, losses |-> 1, writes |-> {3}, tries |-> {}, reads |-> {2}, fast |-> {FALSE}]
Wide == [Stream EXCEPT !.len = 2, !.window = 12, !.connWindow = 12, !.writes = {2}]
MCTransferConfigs ==
  {Stream, [Wide EXCEPT !.again = {1}], [Stream EXCEPT !.calls = {"Close", "Limit", "Deadline"}, !.losses = 0],
   [Stream EXCEPT !.calls = {"Close", "Shutdown"}, !.losses = 0, !.fast = {TRUE}],
   [Wide EXCEPT !.calls = {"Close", "CancelWrite"}],
   [Wide EXCEPT !.calls = {"Close", "CancelRead", "Peek"}, !.connWindow = 2, !.losses = 0],
   [Wide EXCEPT !.calls = {"Close", "TryWriteAll"}, !.losses = 0, !.writes = {1}, !.tries = {1}],
   [Wide EXCEPT !.calls = {"Close", "TryWriteAll", "CancelWrite"}, !.window = 2, !.losses = 0, !.writes = {}, !.tries = {2}],
   [Wide EXCEPT !.calls = {"SetReliableBoundary", "CancelWrite"}, !.resetAt = TRUE, !.writes = {1}, !.reads = {1}, !.losses = 0],
   [Wide EXCEPT !.calls = {"SetReliableBoundary", "Close"}, !.late = TRUE, !.writes = {1}, !.reads = {1}, !.losses = 0]}
(* The stream is cancelled while Write blocks.                             *)
CancelledWrites == {[Stream EXCEPT !.calls = {"Close", "CancelWrite"}]}

(* Streams change their priority while data is announced, lost and         *)
(* cancelled; windows close and control frames compete for the room; 0-RTT *)
(* is rejected.                                                            *)
Framed(may, to, changes, writes, window, first, last) ==
  [may |-> may, to |-> to, changes |-> changes, writes |-> writes, window |-> window, first |-> first, last |-> last]
MCFramerScenarios ==
  {Framed({"priority", "loss"}, 2, 2, {2}, <<9, 9>>, <<0, TRUE>>, <<1, FALSE>>),
   Framed({"priority", "loss"}, 2, 1, {1}, <<9, 9>>, <<0, TRUE>>, <<1, FALSE>>),
   Framed({"priority", "cancel"}, 1, 1, {2}, <<9, 9>>, <<0, FALSE>>, <<0, TRUE>>),
   Framed({"loss"}, 2, 0, {1, 2}, <<1, 2>>, <<0, TRUE>>, <<0, FALSE>>),
   Framed({"reject", "control"}, 2, 0, {2}, <<1, 9>>, <<0, TRUE>>, <<1, TRUE>>)}

(* Every place of a name of one to three bytes and of an ECH extension     *)
(* around it in a ClientHello of nine bytes; shorter ones are delivered.   *)
Hello(n, p, l, e, later, rooms, deliver) ==
  [hello |-> n, sniPos |-> p, sniLen |-> l, echPos |-> e, later |-> later, rooms |-> rooms, deliver |-> deliver]
MCCryptoScenarios ==
  {Hello(9, y[1], y[2], y[3], 2, {4, 20}, FALSE) :
     y \in {z \in (2 .. 8) \X (1 .. 3) \X (-1 .. 7) :
              /\ z[1] + z[2] <= 9 /\ z[3] # 0
              /\ z[3] > 0 => z[3] + 2 < z[1] \/ z[3] >= z[1] + z[2]}}
  \cup {Hello(6, 2, 2, -1, 1, {4, 5, 20}, TRUE), Hello(6, 4, 2, 1, 0, {4, 5, 20}, TRUE), Hello(5, -1, 0, -1, 1, {4, 5, 20}, TRUE)}
=============================================================================
