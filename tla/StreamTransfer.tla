--------------------------- MODULE StreamTransfer --------------------------
(***************************************************************************)
(* One direction of a QUIC stream end to end: the application and the      *)
(* SendStream on one side, the framer that schedules it, packets that are  *)
(* lost, delayed, reordered and acknowledged, and the ReceiveStream and    *)
(* its application on the other side, with flow control both ways.  The    *)
(* run loops, the two applications and the network take their steps in any *)
(* order.  Every frame travels in a packet of its own.  A lost packet may  *)
(* still arrive (a spurious loss).  Control frames of the receiver are     *)
(* retransmitted by the connection until they arrive, so they are only     *)
(* delayed and reordered.                                                  *)
(***************************************************************************)
EXTENDS StreamHalves, FiniteSets

CONSTANTS Configs     (* the scenarios, see Init *)

VARIABLES cfg,     (* the scenario *)
          s,       (* the SendStream *)
          sfc,     (* [str, conn]: the sender's flow controllers *)
          framer,  (* the framer's entries for the stream: subset of {"active","retransmission","control"} *)
          x,       (* [r, str, conn]: the ReceiveStream and its flow controllers *)
          control, (* is the receive stream among the framer's streams with control frames *)
          net,     (* packets: [frame, arrived, lost] *)
          back,    (* control frames on the way to the sender *)
          losses,  (* packets declared lost so far *)
          wrote,   (* bytes Write took over *)
          read,    (* bytes Read returned *)
          end,     (* how the last Read ended *)
          connErr  (* the error that closed the connection, "" while open *)

sendVars == <<s, sfc, framer>>
recvVars == <<x, control, read, end>>
netVars == <<net, back, losses>>
vars == <<cfg, s, sfc, framer, x, control, net, back, losses, wrote, read, end, connErr>>

Allowed(call) == call \in cfg.calls
Open == connErr = ""

(* A scenario: the length of the stream, the sizes of writes and reads,    *)
(* the other calls the applications make, whether windows may be enlarged, *)
(* the initial windows, whether the peer supports RESET_STREAM_AT from the *)
(* start, whether its transport parameters may enable it later, whether an *)
(* application that does not know of a reset may still set a boundary, the *)
(* room for data in a packet, and the number of losses.                    *)
Init ==
  /\ cfg \in Configs
  /\ s = newSendStream(cfg.resetAt)
  /\ sfc = [str |-> NewSendSide(cfg.window), conn |-> NewSendSide(cfg.connWindow)]
  /\ framer = {}
  /\ x = [r |-> newReceiveStream, str |-> NewReceiveSide(cfg.window), conn |-> NewReceiveSide(cfg.connWindow)]
  /\ control = FALSE
  /\ net = {} /\ back = {} /\ losses = 0
  /\ wrote = 0 /\ read = <<>> /\ end = "data"
  /\ connErr = ""

(* The stream after a step of the sender; a completed stream is removed    *)
(* from the framer (onStreamCompleted).                                    *)
Becomes(t, entries) ==
  /\ s' = t
  /\ wrote' = Most(wrote, WriteEnd(t))
  /\ framer' = IF t.completed /\ ~s.completed THEN (framer \cup entries) \ {"active", "retransmission"} ELSE framer \cup entries

SenderStep(t, entries) ==
  /\ Open
  /\ Becomes(t, entries)
  /\ UNCHANGED <<cfg, sfc, net, back, losses, recvVars, connErr>>

----------------------------------------------------------------------------
(* The sending application.                                                *)

Write(n, limiter) ==
  /\ ~s.writing /\ WriteEnd(s) + n <= cfg.len
  /\ limiter => Allowed("Limit")
  /\ LET t == StartWrite(s, n, limiter)
     IN t # s /\ SenderStep(t, IF t.writing \/ t.nextFrame # s.nextFrame THEN {"active"} ELSE {})

WriteWakes(late) ==
  /\ s.writing /\ (s.signal \/ late)
  /\ late => Allowed("Deadline")
  /\ s' = WriteTurn([s EXCEPT !.signal = @ /\ late], late)
  /\ wrote' = Most(wrote, WriteEnd(s'))
  /\ framer' = IF s'.completed /\ ~s.completed THEN framer \ {"active", "retransmission"} ELSE framer
  /\ UNCHANGED <<cfg, sfc, netVars, recvVars, connErr>>

TryWrite(n) ==
  /\ Open /\ Allowed("TryWriteAll") /\ ~s.writing /\ WriteEnd(s) + n <= cfg.len
  /\ s.reset = "no" /\ ~s.shutdown /\ ~s.finishedWriting
  /\ CanAddBytesSent(sfc.str, sfc.conn, BytesToReserve(s, n))
  /\ sfc' = [str |-> AddBytesSent(sfc.str, BytesToReserve(s, n)), conn |-> AddBytesSent(sfc.conn, BytesToReserve(s, n))]
  /\ Becomes(TryWriteAll(s, n), {"active"})
  /\ UNCHANGED <<cfg, netVars, recvVars, connErr>>

CloseStream ==
  /\ Allowed("Close") /\ ~s.writing /\ ~s.finishedWriting
  /\ SenderStep(Close(s), IF s.reset = "no" THEN {"active"} ELSE {})

Cancel ==
  /\ Allowed("CancelWrite") /\ (s.reset = "no" \/ ~s.flagged)
  /\ SenderStep(CancelWrite(s), IF s.reset = "no" THEN {"control"} ELSE {})

Boundary ==
  /\ Allowed("SetReliableBoundary") /\ SetReliableBoundary(s) # s
  /\ cfg.unaware \/ s.reset = "no"
  /\ SenderStep(SetReliableBoundary(s), {})

----------------------------------------------------------------------------
(* The sender's run loop.                                                  *)

Packets(frames) == {[frame |-> f, arrived |-> FALSE, lost |-> FALSE] : f \in frames}

PopStream(room, allowed) ==
  /\ Open /\ "active" \in framer
  /\ allowed < room => s.limiter
  /\ LET res == popStreamFrame(s, sfc.str, sfc.conn, room, allowed)
     IN /\ s' = res.s
        /\ sfc' = [str |-> res.str, conn |-> res.conn]
        /\ framer' = IF res.more THEN framer ELSE framer \ {"active"}
        /\ net' = net \cup Packets(res.frames)
        /\ wrote' = Most(wrote, WriteEnd(res.s))
  /\ UNCHANGED <<cfg, back, losses, recvVars, connErr>>

PopRetransmission(room) ==
  /\ Open /\ "retransmission" \in framer
  /\ LET res == popRetransmissionFrame(s, room)
     IN /\ s' = res.s
        /\ framer' = IF res.more THEN framer ELSE framer \ {"retransmission"}
        /\ net' = net \cup Packets(res.frames)
  /\ UNCHANGED <<cfg, sfc, back, losses, wrote, recvVars, connErr>>

PopControl ==
  /\ Open /\ "control" \in framer
  /\ framer' = framer \ {"control"}
  /\ s' = getControlFrame(s)
  /\ net' = net \cup Packets({s.queuedReset} \ {NoReset})
  /\ UNCHANGED <<cfg, sfc, back, losses, wrote, recvVars, connErr>>

OnAcked(f) == IF f.type = "STREAM" THEN OnAckedStream(s) ELSE OnAckedReset(s, f)
OnLost(f) == IF f.type = "STREAM" THEN OnLostStream(s, f) ELSE OnLostReset(s, f)

Acked(p) ==
  /\ Open /\ p.arrived /\ ~p.lost
  /\ net' = net \ {p}
  /\ Becomes(OnAcked(p.frame), {})
  /\ UNCHANGED <<cfg, sfc, back, losses, recvVars, connErr>>

(* Declared lost; it may still be on its way, or have arrived.             *)
Lost(p, late) ==
  /\ Open /\ ~p.lost /\ losses < cfg.losses
  /\ losses' = losses + 1
  /\ late => ~p.arrived
  /\ net' = (net \ {p}) \cup (IF late THEN {[p EXCEPT !.lost = TRUE]} ELSE {})
  /\ LET t == OnLost(p.frame)
     IN Becomes(t, (IF s.retransmissions = <<>> /\ t.retransmissions # <<>> THEN {"retransmission"} ELSE {})
                   \cup (IF t.queuedReset # s.queuedReset THEN {"control"} ELSE {}))
  /\ UNCHANGED <<cfg, sfc, back, recvVars, connErr>>

(* The sender handles a control frame; those for a stream that was removed *)
(* are ignored.                                                            *)
HandleControl(f) ==
  /\ Open
  /\ back' = back \ {f}
  /\ CASE f.type = "MAX_DATA" ->
            sfc' = [sfc EXCEPT !.conn = UpdateSendWindow(@, f.max)] /\ UNCHANGED <<s, framer, wrote>>
       [] f.type = "MAX_STREAM_DATA" /\ ~s.completed ->
            /\ sfc' = [sfc EXCEPT !.str = UpdateSendWindow(@, f.max)]
            /\ framer' = IF f.max > sfc.str.sendWindow /\ Source(s) # <<>> THEN framer \cup {"active"} ELSE framer
            /\ UNCHANGED <<s, wrote>>
       [] f.type = "STOP_SENDING" /\ ~s.completed ->
            /\ Becomes(handleStopSendingFrame(s), IF s.shutdown \/ Dropped(s) THEN {} ELSE {"control"})
            /\ UNCHANGED sfc
       [] OTHER -> UNCHANGED <<s, sfc, framer, wrote>>
  /\ UNCHANGED <<cfg, net, losses, recvVars, connErr>>

(* The transport parameters of the handshake arrive after 0-RTT streams    *)
(* were opened.                                                            *)
EnableResetStreamAt ==
  /\ cfg.late /\ ~s.resetAt
  /\ SenderStep([s EXCEPT !.resetAt = TRUE], {})

----------------------------------------------------------------------------
(* The receiver.                                                           *)

ReceiverStep(y) ==
  /\ x' = y
  /\ control' = (control \/ (y.r.stopSending /\ ~x.r.stopSending) \/ (y.r.maxStreamData /\ ~x.r.maxStreamData))
  /\ UNCHANGED <<cfg, sendVars, losses, wrote, back>>

MaxOffset(f) == IF f.type = "STREAM" THEN FrameEnd(f) ELSE f.final
IsFinal(f) == f.type = "RESET_STREAM" \/ f.fin
Handle(y, f) == IF f.type = "STREAM" THEN handleStreamFrame(y, f) ELSE handleResetStreamFrame(y, f)

Arrive(p) ==
  /\ Open /\ ~p.arrived
  /\ net' = IF p.lost THEN net \ {p} ELSE (net \ {p}) \cup {[p EXCEPT !.arrived = TRUE]}
  /\ connErr' = IF x.r.completed \/ x.r.shutdown THEN connErr ELSE Refused(x, MaxOffset(p.frame), IsFinal(p.frame))
  /\ ReceiverStep(IF x.r.completed \/ x.r.shutdown \/ connErr' # "" THEN x ELSE Handle(x, p.frame))
  /\ UNCHANGED <<read, end>>

Returned(res) ==
  /\ ReceiverStep(res.x)
  /\ read' = read \o res.got
  /\ end' = IF res.end \in {"", "data"} THEN end ELSE res.end
  /\ UNCHANGED <<net, connErr>>

Read(n) ==
  /\ x.r.want = 0 /\ end = "data"
  /\ Returned(StartRead(x, n))

ReadContinues ==
  /\ x.r.want > 0 /\ x.r.signal
  /\ Returned(ReadWakes(x))

Peeks ==
  /\ Allowed("Peek") /\ x.r.want = 0 /\ PeekDequeues(x.r) # x.r
  /\ ReceiverStep([x EXCEPT !.r = PeekDequeues(@)])
  /\ UNCHANGED <<net, read, end, connErr>>

CancelReading ==
  /\ Open /\ Allowed("CancelRead") /\ ~x.r.locally
  /\ ReceiverStep(CancelRead(x))
  /\ UNCHANGED <<net, read, end, connErr>>

(* The receiver's run loop sends the control frames of the stream and the  *)
(* connection's window update.                                             *)
SendControl(fast) ==
  /\ Open /\ control
  /\ IF x.r.stopSending
     THEN /\ x' = [x EXCEPT !.r = AfterStopSending(@)] /\ back' = back \cup {StopSendingFrame} /\ control' = x.r.maxStreamData
     ELSE /\ x' = GetWindowUpdate(x, fast) /\ control' = FALSE
          /\ back' = IF x.r.maxStreamData /\ ShouldQueueWindowUpdate(x.str) THEN back \cup {MaxStreamDataFrame(x'.str.receiveWindow)} ELSE back
  /\ UNCHANGED <<cfg, sendVars, net, losses, wrote, read, end, connErr>>

SendMaxData ==
  /\ Open /\ HasWindowUpdate(x.conn)
  /\ \E fast \in cfg.fast : x' = [x EXCEPT !.conn = getWindowUpdate(@, fast)]
  /\ back' = back \cup {MaxDataFrame(x'.conn.receiveWindow)}
  /\ UNCHANGED <<cfg, sendVars, control, net, losses, wrote, read, end, connErr>>

(* The connection is closed, here or by the error: blocked calls return.   *)
Shutdown ==
  /\ ~s.shutdown /\ ~x.r.shutdown /\ (Allowed("Shutdown") \/ ~Open)
  /\ connErr' = IF Open THEN "closed" ELSE connErr
  /\ s' = closeForShutdownSend(s)
  /\ x' = [x EXCEPT !.r = closeForShutdownReceive(@)]
  /\ UNCHANGED <<cfg, sfc, framer, control, netVars, wrote, read, end>>

----------------------------------------------------------------------------

RunLoop ==
  \/ \E room \in cfg.rooms : \E allowed \in (IF Allowed("Limit") THEN 0 .. room ELSE {room}) : PopStream(room, allowed)
  \/ \E room \in cfg.again : PopRetransmission(room)
  \/ PopControl
  \/ \E p \in net : Acked(p)
  \/ \E f \in back : HandleControl(f)
Receiver ==
  \/ \E p \in net : ~p.lost /\ Arrive(p)
  \/ \E fast \in cfg.fast : SendControl(fast)
  \/ SendMaxData

Next ==
  \/ \E n \in cfg.writes, limiter \in BOOLEAN : Write(n, limiter)
  \/ \E late \in BOOLEAN : WriteWakes(late)
  \/ \E n \in cfg.tries : TryWrite(n)
  \/ CloseStream \/ Cancel \/ Boundary \/ EnableResetStreamAt
  \/ RunLoop \/ Receiver
  \/ \E p \in net, late \in BOOLEAN : Lost(p, late)
  \/ \E p \in net : p.lost /\ Arrive(p)
  \/ \E n \in cfg.reads : Read(n)
  \/ ReadContinues \/ Peeks \/ CancelReading \/ Shutdown

Spec == Init /\ [][Next]_vars

(* The run loops of the two connections keep running, blocked calls that   *)
(* are signalled go on, and the receiving application keeps reading.  None *)
(* of these steps can be taken for ever, so it is enough that one of them  *)
(* is taken as long as there is one.                                       *)
Progress ==
  \/ RunLoop \/ Receiver \/ WriteWakes(FALSE) \/ ReadContinues
  \/ \E n \in cfg.reads : Read(n)
  \/ ~Open /\ Shutdown
Fairness == WF_vars(Progress)
FairSpec == Spec /\ Fairness

----------------------------------------------------------------------------
(* Properties.                                                             *)

TypeOK ==
  /\ s.writeOffset \in 0 .. cfg.len /\ WriteEnd(s) <= cfg.len
  /\ s.outstanding \in Int /\ framer \subseteq {"active", "retransmission", "control"}
  /\ sfc.str.bytesSent <= sfc.str.sendWindow /\ sfc.conn.bytesSent <= sfc.conn.sendWindow
  /\ x.str.bytesRead <= x.str.highestReceived /\ x.conn.bytesRead <= x.conn.highestReceived
  /\ \A p \in net : p.frame.type \in {"STREAM", "RESET_STREAM"}

(* The reader gets what was written, in order and without a gap, through   *)
(* every loss, reordering, split and retransmission: the transfer          *)
(* implements the abstract stream.                                         *)
Stream == INSTANCE ReliableStream WITH Channels <- {"stream"}, Pieces <- Nat,
            sent <- [ch \in {"stream"} |-> Bytes(0, wrote)], received <- [ch \in {"stream"} |-> read]
ImplementsStream == Stream!Spec

InFlight == {p \in net : ~p.lost}
Tracked(p) == s.reset = "no" \/ reliableOffset(s) > 0 \/ p.frame.type = "RESET_STREAM"
Counted_(p) == p.frame.type = "RESET_STREAM" => p.frame.rel = reliableOffset(s)

(* numOutstandingFrames is the number of frames in flight whose fate still *)
(* matters.  If it were below, the stream would complete, and be deleted,  *)
(* too early and an acknowledgement would make the handlers panic; if it   *)
(* were above, the stream would never complete.  It never becomes          *)
(* negative, which the acknowledgement handlers panic on.                  *)
OutstandingExact ==
  /\ s.outstanding >= 0
  /\ ~s.completed => s.outstanding = Cardinality({p \in InFlight : Tracked(p) /\ Counted_(p)})

(* A peer that runs this code accepts every frame of the stream: none      *)
(* exceeds the windows it granted, and all final sizes agree.              *)
PeerAccepts == connErr \notin {"FINAL_SIZE_ERROR", "FLOW_CONTROL_ERROR"}

(* A stream that completed without a reset has delivered everything: all   *)
(* bytes written have been received, and the end of the stream is known.   *)
CompletedMeansDelivered ==
  s.completed /\ Open /\ s.reset = "no" =>
    x.str.final /\ x.str.highestReceived = wrote /\ (x.r.completed \/ x.r.locally \/ x.r.queue.gaps[1].Start = wrote)

(* io.EOF is returned after the last byte the application wrote, and only  *)
(* if it closed the stream.                                                *)
EOFAfterLastByte == end = "eof" => s.finishedWriting /\ Len(read) = wrote

(* A reset seen by the reader comes after all the data that was marked as  *)
(* reliable when the stream was cancelled.                                 *)
ReliableBeforeReset ==
  end = "cancelled" /\ ~x.r.locally => Len(read) >= x.r.reliableSize /\ x.r.reliableSize >= reliableOffset(s)

(* Once the receiver is done with the stream, every byte the peer may have *)
(* counted against the connection's window has been given back, and both   *)
(* ends count the same bytes, whichever way the stream ended.              *)
CreditReturned ==
  /\ x.r.completed /\ Open => x.conn.bytesRead = x.conn.highestReceived
  /\ x.r.completed /\ s.completed /\ Open => x.conn.highestReceived = sfc.conn.bytesSent

(* What Peek shows is what the next Read returns: the bytes of the stream  *)
(* from the read position on, cut short only where the stream ends.        *)
PeekSeesNext ==
  x.r.want = 0 /\ ~x.r.shutdown /\ ~x.r.locally =>
    \A n \in 1 .. 3 :
      LET seen == PeekSees(x.r, n)
      IN /\ seen[1] = Bytes(x.r.readPos, x.r.readPos + Len(seen[1]))
         /\ seen[2] = "data" => Len(seen[1]) = n
         /\ seen[2] = "eof" => x.r.readPos + Len(seen[1]) = wrote /\ s.finishedWriting
         /\ seen[2] = "cancelled" => x.r.readPos + Len(seen[1]) >= x.r.reliableSize

(* Nothing is pending: no Write blocks; what was written and closed has    *)
(* been read to the end, unless one of the two applications gave up; and a *)
(* stream that was closed or cancelled has completed, so that its state is *)
(* freed, unless the connection closed first.                              *)
NothingPending ==
  /\ ~s.writing
  /\ s.finishedWriting => end # "data" \/ s.reset # "no" \/ x.r.locally \/ ~Open
  /\ s.finishedWriting \/ s.flagged => s.completed \/ ~Open

(* The transfer settles: no wake-up of Write or Read is lost, no frame is  *)
(* forgotten, and "the stream is also completed if the application called  *)
(* CancelWrite" (isNewlyCompleted).                                        *)
StreamCompletes == []<>NothingPending

(* The stream keeps its books: all of the above at once, for every         *)
(* interleaving of Write, Close, CancelWrite, Read, CancelRead and the     *)
(* frames under way.                                                       *)
StreamExact ==
  /\ TypeOK
  /\ OutstandingExact
  /\ PeerAccepts
  /\ CompletedMeansDelivered
  /\ EOFAfterLastByte
  /\ ReliableBeforeReset
  /\ CreditReturned
  /\ PeekSeesNext
=============================================================================
