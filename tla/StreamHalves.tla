---------------------------- MODULE StreamHalves ----------------------------
(***************************************************************************)
(* The two halves of a QUIC stream, and the flow control that both use.    *)
(* StreamTransfer connects a sending half to a receiving one.              *)
(***************************************************************************)
EXTENDS FrameSorter, Integers, Sequences, SequencesExt, FiniteSetsExt

(***************************************************************************)
(* Stream- and connection-level flow control (flow_controller_base.go,     *)
(* flow_controller_stream.go, flow_controller_connection.go).  The send    *)
(* side of a controller is [bytesSent, sendWindow, lastBlockedAt], the     *)
(* receive side [bytesRead, highestReceived, receiveWindow, windowSize,    *)
(* final], both at the level of a stream and of its connection.  Whether a *)
(* window was consumed fast enough to be enlarged is a question of time,   *)
(* so the caller passes the answer.                                        *)
(***************************************************************************)
CONSTANT MaxWindowSize   (* the configured limits of auto-tuning *)

Least(a, b) == IF a <= b THEN a ELSE b
Most(a, b) == IF a >= b THEN a ELSE b

(* --- sending ----------------------------------------------------------- *)

NewSendSide(window) == [bytesSent |-> 0, sendWindow |-> window, lastBlockedAt |-> 0]

UpdateSendWindow(c, offset) == [c EXCEPT !.sendWindow = Most(@, offset)]

Credit(c) == c.sendWindow - c.bytesSent
SendWindowSize(str, conn) == Least(Credit(str), Credit(conn))

CanAddBytesSent(str, conn, n) == n <= Credit(str) /\ n <= Credit(conn)
AddBytesSent(c, n) == [c EXCEPT !.bytesSent = @ + n]

NewlyBlocked(c) == c.bytesSent >= c.sendWindow /\ c.sendWindow # c.lastBlockedAt
AfterIsNewlyBlocked(c) == IF NewlyBlocked(c) THEN [c EXCEPT !.lastBlockedAt = c.sendWindow] ELSE c

(* --- receiving --------------------------------------------------------- *)

NewReceiveSide(window) ==
  [bytesRead |-> 0, highestReceived |-> 0, receiveWindow |-> window, windowSize |-> window, final |-> FALSE]

FinalSizeError(str, offset, final) ==
  \/ str.final /\ (offset > str.highestReceived \/ (final /\ offset # str.highestReceived))
  \/ final /\ offset < str.highestReceived

(* The connection counts the sum over its streams.                         *)
Increment(str, offset) == IF offset > str.highestReceived THEN offset - str.highestReceived ELSE 0
FlowControlError(str, conn, offset) ==
  /\ Increment(str, offset) > 0
  /\ \/ offset > str.receiveWindow
     \/ conn.highestReceived + Increment(str, offset) > conn.receiveWindow

UpdateHighestReceived(str, offset, final) ==
  [str EXCEPT !.highestReceived = Most(@, offset), !.final = @ \/ final]
IncrementHighestReceived(conn, str, offset) ==
  [conn EXCEPT !.highestReceived = @ + Increment(str, offset)]

AddBytesRead(c, n) == [c EXCEPT !.bytesRead = @ + n]

(* An update is due once a quarter of the window is consumed.              *)
HasWindowUpdate(c) == 4 * (c.receiveWindow - c.bytesRead) <= 3 * c.windowSize
ShouldQueueWindowUpdate(str) == ~str.final /\ HasWindowUpdate(str)

maybeAdjustWindowSize(c, fast) ==
  IF fast THEN [c EXCEPT !.windowSize = Least(2 * @, MaxWindowSize)] ELSE c
getWindowUpdate(c, fast) ==
  IF ~HasWindowUpdate(c) THEN c
  ELSE LET d == maybeAdjustWindowSize(c, fast) IN [d EXCEPT !.receiveWindow = d.bytesRead + d.windowSize]

(* A stream that enlarged its window enlarges that of the connection to    *)
(* one and a half times its own, within the limit.                         *)
EnsureMinimumWindowSize(conn, old, new) ==
  IF new.windowSize > old.windowSize
  THEN [conn EXCEPT !.windowSize = Most(@, Least((3 * new.windowSize) \div 2, MaxWindowSize))]
  ELSE conn

(* A cancelled or reset stream counts what was never read as read.         *)
Unread(str) == str.highestReceived - str.bytesRead
Abandon(str) == [str EXCEPT !.bytesRead = str.highestReceived]

-----------------------------------------------------------------------------
(***************************************************************************)
(* The sending half of a QUIC stream (send_stream.go) with the wire frames *)
(* it produces.  The operators take the state s of a stream and return the *)
(* state the method leaves; StreamTransfer calls them.  The byte at offset *)
(* i of the stream is i itself.  A Write in progress is s.writing, waiting *)
(* for a token s.signal on writeChan.  Go's nil and empty slices coincide  *)
(* here, since a buffered frame and a pending write are never empty.       *)
(***************************************************************************)
CONSTANT MaxPacketBufferSize   (* what Write may leave in nextFrame *)

Bytes(a, b) == [i \in 1 .. b - a |-> a + i - 1]

(* --- frames (internal/wire) -------------------------------------------- *)

StreamFrame(off, data, fin) == [type |-> "STREAM", off |-> off, data |-> data, fin |-> fin]
ResetStreamFrame(final, rel) == [type |-> "RESET_STREAM", final |-> final, rel |-> rel]
StopSendingFrame == [type |-> "STOP_SENDING"]
MaxStreamDataFrame(n) == [type |-> "MAX_STREAM_DATA", max |-> n]
MaxDataFrame(n) == [type |-> "MAX_DATA", max |-> n]

FrameEnd(f) == f.off + Len(f.data)
Prefix(f, n) == [f EXCEPT !.data = SubSeq(@, 1, n)]

(* The first n bytes of a frame, without the FIN, and the rest.            *)
SplitOff(f, n) == [Prefix(f, n) EXCEPT !.fin = FALSE]
AfterSplit(f, n) == [f EXCEPT !.off = @ + n, !.data = SubSeq(@, n + 1, Len(@))]

(* --- state ------------------------------------------------------------- *)

NoReset == [type |-> "none"]

newSendStream(resetAt) ==
  [writeOffset |-> 0, nextFrame |-> <<>>, reserved |-> FALSE, dataForWriting |-> <<>>,
   writing |-> FALSE, limiter |-> FALSE, limited |-> FALSE, signal |-> FALSE,
   reliableSize |-> 0, resetAt |-> resetAt, finishedWriting |-> FALSE, finSent |-> FALSE,
   reset |-> "no", flagged |-> FALSE, completed |-> FALSE, shutdown |-> FALSE,
   outstanding |-> 0, retransmissions |-> <<>>, queuedReset |-> NoReset]

reliableOffset(s) == IF s.resetAt THEN s.reliableSize ELSE 0
Dropped(s) == s.reset # "no" /\ reliableOffset(s) = 0
signalWrite(s) == [s EXCEPT !.signal = TRUE]

CanComplete(s) ==
  /\ s.nextFrame = <<>> /\ s.outstanding <= 0 /\ s.retransmissions = <<>> /\ s.queuedReset = NoReset
  /\ s.finSent \/ (s.reset # "no" /\ (s.flagged \/ s.finishedWriting))
isNewlyCompleted(s) == [s EXCEPT !.completed = @ \/ CanComplete(s)]

(* --- the application --------------------------------------------------- *)

canBufferStreamFrame(s) ==
  ~s.limiter /\ ~s.reserved /\ Len(s.nextFrame) + Len(s.dataForWriting) <= MaxPacketBufferSize

WriteReturns(s) == [s EXCEPT !.writing = FALSE, !.limiter = FALSE, !.limited = FALSE]

(* A short write of a cancelled stream returns the error, which from then  *)
(* on the application knows.                                               *)
WriteEnds(s, short) ==
  IF short /\ ~s.shutdown /\ s.reset # "no" THEN isNewlyCompleted([WriteReturns(s) EXCEPT !.flagged = TRUE])
  ELSE WriteReturns(s)

(* One turn of the loop of write: it returns, or leaves s.writing set and  *)
(* waits.  late: the write deadline has passed.                            *)
WriteTurn(s, late) ==
  IF s.limited THEN WriteEnds([s EXCEPT !.dataForWriting = <<>>], s.dataForWriting # <<>>)
  ELSE IF canBufferStreamFrame(s) /\ s.dataForWriting # <<>>
  THEN WriteReturns([s EXCEPT !.nextFrame = @ \o s.dataForWriting, !.dataForWriting = <<>>])
  ELSE IF late THEN WriteReturns([s EXCEPT !.dataForWriting = <<>>])
  ELSE IF s.dataForWriting = <<>> \/ s.shutdown \/ s.reset # "no" THEN WriteEnds(s, s.dataForWriting # <<>>)
  ELSE s

(* Where the bytes of a Write that starts now come to lie.                 *)
WriteEnd(s) == s.writeOffset + Len(s.nextFrame)

StartWrite(s, n, limiter) ==
  IF s.reset # "no" THEN isNewlyCompleted([s EXCEPT !.flagged = TRUE])
  ELSE IF s.shutdown \/ s.finishedWriting THEN s
  ELSE WriteTurn([s EXCEPT !.writing = TRUE, !.limiter = limiter, !.limited = FALSE,
                           !.dataForWriting = Bytes(WriteEnd(s), WriteEnd(s) + n)], FALSE)

(* TryWriteAll takes flow control credit at once, also for a buffered      *)
(* frame that had none, and buffers everything or nothing.                 *)
BytesToReserve(s, n) == n + (IF s.reserved THEN 0 ELSE Len(s.nextFrame))
TryWriteAll(s, n) ==
  [s EXCEPT !.nextFrame = @ \o Bytes(WriteEnd(s), WriteEnd(s) + n), !.reserved = TRUE]

Close(s) ==
  IF s.shutdown \/ s.finishedWriting THEN s
  ELSE isNewlyCompleted([s EXCEPT !.finishedWriting = TRUE, !.flagged = @ \/ s.reset # "no"])

SetReliableBoundary(s) == [s EXCEPT !.reliableSize = Most(@, WriteEnd(s))]

returnFramesToPool(s) == [s EXCEPT !.retransmissions = <<>>, !.nextFrame = <<>>, !.reserved = FALSE]

(* Flow control credit a reserved frame took counts towards the final size.*)
Reserved(s) == IF s.reserved THEN WriteEnd(s) ELSE 0

(* What a reset leaves of a frame and of the queues.                       *)
TruncateFrame(f, rel) == IF FrameEnd(f) > rel THEN Prefix(f, rel - f.off) ELSE f
TruncateQueues(s, rel) ==
  [s EXCEPT !.nextFrame = SubSeq(@, 1, Least(Len(@), Most(rel, s.writeOffset) - s.writeOffset)),
            !.reserved = @ /\ s.writeOffset < rel,
            !.retransmissions = LET q == SelectSeq(@, LAMBDA f : f.off < rel)
                                IN [i \in DOMAIN q |-> TruncateFrame(q[i], rel)]]

CancelWrite(s) ==
  IF s.shutdown THEN s
  ELSE IF s.reset # "no" THEN isNewlyCompleted([s EXCEPT !.flagged = TRUE])
  ELSE LET rel == reliableOffset(s)
           q == IF rel = 0 THEN [returnFramesToPool(s) EXCEPT !.outstanding = 0] ELSE TruncateQueues(s, rel)
       IN signalWrite([q EXCEPT !.reset = "local", !.flagged = TRUE,
                                !.queuedReset = ResetStreamFrame(Max({s.writeOffset, rel, Reserved(s)}), rel)])

closeForShutdownSend(s) ==
  signalWrite([(IF s.shutdown \/ s.finishedWriting THEN s ELSE returnFramesToPool([s EXCEPT !.shutdown = TRUE]))
                 EXCEPT !.completed = TRUE])

(* --- the connection's run loop ----------------------------------------- *)

handleStopSendingFrame(s) ==
  IF s.shutdown \/ Dropped(s) THEN s
  ELSE signalWrite([returnFramesToPool(s) EXCEPT
         !.reliableSize = 0, !.outstanding = 0, !.reset = IF @ = "no" THEN "remote" ELSE @,
         !.queuedReset = ResetStreamFrame(Most(s.writeOffset, Reserved(s)), 0)])

(* popNewStreamFrame: n bytes of the buffered frame or of a blocked Write. *)
PopBytes(s, n) ==
  IF s.nextFrame # <<>>
  THEN IF Len(s.nextFrame) > n THEN [s EXCEPT !.nextFrame = SubSeq(@, n + 1, Len(@))]
       ELSE signalWrite([s EXCEPT !.nextFrame = <<>>, !.reserved = FALSE])
  ELSE LET t == [s EXCEPT !.dataForWriting = SubSeq(@, n + 1, Len(@))]
       IN IF t.dataForWriting = <<>> \/ canBufferStreamFrame(t) THEN signalWrite(t) ELSE t

Source(s) == IF s.nextFrame # <<>> THEN s.nextFrame ELSE s.dataForWriting
MoreAfter(s, t) ==
  t.nextFrame # <<>> \/ t.dataForWriting # <<>> \/ (s.nextFrame = <<>> /\ s.finishedWriting)

NothingToPop(s) ==
  \/ s.shutdown \/ s.limited
  \/ s.reset # "no" /\ s.writeOffset >= reliableOffset(s)

(* The bytes that fit the packet (room), the window and a reset's boundary.*)
Sendable(s, str, conn, room) ==
  Min({room, Len(Source(s)), IF s.reserved THEN Len(s.nextFrame) ELSE SendWindowSize(str, conn)}
      \cup (IF s.reset # "no" THEN {reliableOffset(s) - s.writeOffset} ELSE {}))

LimitedWrite(s) == s.limiter /\ s.nextFrame = <<>>

Popped(s, str, conn, frames, more) == [s |-> s, str |-> str, conn |-> conn, frames |-> frames, more |-> more]

PopN(s, str, conn, n, limited) ==
  LET t == [PopBytes(s, n) EXCEPT !.writeOffset = @ + n, !.limited = limited]
      u == IF limited THEN signalWrite(t) ELSE t
      fin == s.finishedWriting /\ u.dataForWriting = <<>> /\ u.nextFrame = <<>> /\ ~s.finSent
      str2 == IF s.reserved THEN str ELSE AddBytesSent(str, n)
      conn2 == IF s.reserved THEN conn ELSE AddBytesSent(conn, n)
      blocked == ~u.reserved /\ NewlyBlocked(str2)
  IN Popped([u EXCEPT !.finSent = @ \/ fin, !.outstanding = @ + 1],
            IF blocked THEN AfterIsNewlyBlocked(str2) ELSE str2, conn2,
            {StreamFrame(s.writeOffset, SubSeq(Source(s), 1, n), fin)},
            /\ MoreAfter(s, t) /\ ~blocked /\ ~limited
            /\ ~(s.reset # "no" /\ u.writeOffset >= reliableOffset(s)))

(* popStreamFrame, with room bytes of data in the packet; a limiter lets   *)
(* allowed bytes through.                                                  *)
popStreamFrame(s, str, conn, room, allowed) ==
  IF NothingToPop(s) THEN Popped(s, str, conn, {}, FALSE)
  ELSE IF Source(s) = <<>>
  THEN IF s.finishedWriting /\ ~s.finSent
       THEN Popped([s EXCEPT !.finSent = TRUE, !.outstanding = @ + 1], str, conn, {StreamFrame(s.writeOffset, <<>>, TRUE)}, FALSE)
       ELSE Popped(s, str, conn, {}, FALSE)
  ELSE LET n == Sendable(s, str, conn, room)
       IN IF n = 0 THEN Popped(s, str, conn, {}, TRUE)
          ELSE IF ~LimitedWrite(s) \/ allowed >= n THEN PopN(s, str, conn, n, FALSE)
          ELSE IF allowed = 0 THEN Popped(signalWrite([s EXCEPT !.limited = TRUE]), str, conn, {}, FALSE)
          ELSE PopN(s, str, conn, allowed, TRUE)

(* A retransmission is split when it does not fit the packet.              *)
popRetransmissionFrame(s, room) ==
  IF s.shutdown \/ s.retransmissions = <<>> THEN [s |-> s, frames |-> {}, more |-> FALSE]
  ELSE LET f == Head(s.retransmissions)
           rest == IF Len(f.data) > room THEN <<AfterSplit(f, room)>> \o Tail(s.retransmissions) ELSE Tail(s.retransmissions)
       IN [s |-> [s EXCEPT !.retransmissions = rest, !.outstanding = @ + 1],
           frames |-> {IF Len(f.data) > room THEN SplitOff(f, room) ELSE f}, more |-> rest # <<>>]

getControlFrame(s) ==
  IF s.queuedReset = NoReset THEN s ELSE [s EXCEPT !.queuedReset = NoReset, !.outstanding = @ + 1]

OnAckedStream(s) == IF Dropped(s) THEN s ELSE isNewlyCompleted([s EXCEPT !.outstanding = @ - 1])

OnLostStreamCounted(s, f) == IF Dropped(s) THEN s ELSE [s EXCEPT !.retransmissions = Append(@, f)]
OnLostStream(s, f) ==
  IF Dropped(s) THEN s
  ELSE LET t == [s EXCEPT !.outstanding = @ - 1]
           rel == reliableOffset(s)
       IN IF s.reset # "no" /\ f.off >= rel THEN isNewlyCompleted(t)
          ELSE [t EXCEPT !.retransmissions = Append(@, IF s.reset # "no" THEN TruncateFrame(f, rel) ELSE f)]

OnAckedReset(s, f) ==
  IF f.rel # reliableOffset(s) THEN s ELSE isNewlyCompleted([s EXCEPT !.outstanding = @ - 1])
OnLostReset(s, f) ==
  IF f.rel # reliableOffset(s) THEN s ELSE [s EXCEPT !.queuedReset = f, !.outstanding = @ - 1]

-----------------------------------------------------------------------------
(***************************************************************************)
(* The receiving half of a QUIC stream (receive_stream.go), as operators   *)
(* on the state [r, str, conn]: the stream, its flow controller and that   *)
(* of the connection.  Read is a loop over the frames of the sorter; a     *)
(* Read in progress is r.want > 0, waiting for a token r.signal on         *)
(* readChan.  A nil currentFrame is the empty sequence.                    *)
(***************************************************************************)
newReceiveStream ==
  [queue |-> newFrameSorter, finalOffset |-> MaxByteCount, currentFrame |-> <<>>, isLast |-> FALSE,
   stopSending |-> FALSE, maxStreamData |-> FALSE, errorRead |-> FALSE, completed |-> FALSE,
   remotely |-> FALSE, locally |-> FALSE, shutdown |-> FALSE, readPos |-> 0, reliableSize |-> 0,
   want |-> 0, signal |-> FALSE]

signalRead(r) == [r EXCEPT !.signal = TRUE]
isRemoteCancellationEffective(r) == r.remotely /\ r.readPos >= r.reliableSize
CancelEffective(r) == r.locally \/ isRemoteCancellationEffective(r)

(* currentFrame holds the unread rest of the frame.                        *)
dequeueNextFrame(r) ==
  LET p == Pop(r.queue)
  IN [r EXCEPT !.queue = p.fs, !.currentFrame = p.data,
               !.isLast = p.offset + Len(p.data) >= r.finalOffset /\ ~r.remotely]

ReceiveCompletes(r) == ~r.completed /\ r.finalOffset # MaxByteCount /\ (r.locally \/ r.errorRead)
AbandonStream(x) ==
  [x EXCEPT !.str = Abandon(@), !.conn = AddBytesRead(@, Unread(x.str))]

(* --- Read -------------------------------------------------------------- *)

(* The outcome of a Read so far: the state, the bytes got, and how it ends *)
(* ("" while it has not).                                                  *)
Reading(x, got, end) == [x |-> x, got |-> got, end |-> end]
ErrorRead(x) == [x EXCEPT !.r.errorRead = TRUE]

(* Copy m bytes: a stream that is being read out after a reset was already *)
(* accounted for.                                                          *)
Consume(x, m) ==
  LET y == [x EXCEPT !.r.currentFrame = SubSeq(@, m + 1, Len(@)), !.r.readPos = @ + m,
                     !.str = AddBytesRead(@, m), !.conn = AddBytesRead(@, m),
                     !.r.maxStreamData = @ \/ ShouldQueueWindowUpdate(AddBytesRead(x.str, m))]
  IN IF isRemoteCancellationEffective(y.r) THEN AbandonStream(y) ELSE y

RECURSIVE ReadTurn(_, _, _)
RECURSIVE ReadFrames(_, _, _)

ReadTurnOverwriting(x, got, n) ==
  IF x.r.shutdown THEN Reading(x, got, "shutdown")
  ELSE IF CancelEffective(x.r) THEN Reading(ErrorRead(x), got, "cancelled")
  ELSE IF x.r.currentFrame = <<>> /\ ~x.r.isLast THEN Reading(x, got, "")
  ELSE LET m == Least(n - Len(got), Len(x.r.currentFrame))
           y == Consume(x, m)
           more == SubSeq(x.r.currentFrame, 1, m)
       IN IF y.r.currentFrame = <<>> /\ y.r.isLast THEN Reading(ErrorRead(y), more, "eof")
          ELSE ReadFrames(y, more, n)

(* The inner loop of readImpl: an error, data to copy, or waiting.         *)
ReadTurn(x, got, n) ==
  IF x.r.shutdown THEN Reading(x, got, "shutdown")
  ELSE IF CancelEffective(x.r) THEN Reading(ErrorRead(x), got, "cancelled")
  ELSE IF x.r.currentFrame = <<>> /\ ~x.r.isLast THEN Reading(x, got, "")
  ELSE LET m == Least(n - Len(got), Len(x.r.currentFrame))
           y == Consume(x, m)
           more == got \o SubSeq(x.r.currentFrame, 1, m)
       IN IF y.r.currentFrame = <<>> /\ y.r.isLast THEN Reading(ErrorRead(y), more, "eof")
          ELSE ReadFrames(y, more, n)

ReadFrames(x, got, n) ==
  IF Len(got) = n
  THEN IF isRemoteCancellationEffective(x.r) THEN Reading(ErrorRead(x), got, "cancelled") ELSE Reading(x, got, "data")
  ELSE LET y == IF x.r.currentFrame = <<>> THEN [x EXCEPT !.r = dequeueNextFrame(@)] ELSE x
       IN IF y.r.currentFrame = <<>> /\ got # <<>> THEN Reading(y, got, "data") ELSE ReadTurn(y, got, n)

(* Read after it has returned: the completed stream is removed.            *)
Settled(res) ==
  [res EXCEPT !.x.r.completed = @ \/ ReceiveCompletes(res.x.r), !.x.r.want = 0]
Waiting(res, n) == [res EXCEPT !.x.r.want = n]
ReadResult(res, n) == IF res.end = "" THEN Waiting(res, n) ELSE Settled(res)

StartRead(x, n) ==
  IF x.r.isLast /\ x.r.currentFrame = <<>> THEN ReadResult(Reading(ErrorRead(x), <<>>, "eof"), n)
  ELSE IF CancelEffective(x.r) THEN ReadResult(Reading(ErrorRead(x), <<>>, "cancelled"), n)
  ELSE IF x.r.shutdown THEN ReadResult(Reading(x, <<>>, "shutdown"), n)
  ELSE ReadResult(ReadFrames(x, <<>>, n), n)

(* A token on readChan: Read looks again.                                  *)
ReadWakes(x) ==
  ReadResult(ReadTurn([x EXCEPT !.r = [dequeueNextFrame(@) EXCEPT !.signal = FALSE]], <<>>, x.r.want), x.r.want)

(* --- Peek -------------------------------------------------------------- *)

(* What Peek of n bytes sees and how it returns ("" if it waits); its only *)
(* effect is to dequeue a frame once the current one is used up.           *)
PeekDequeues(r) ==
  IF r.currentFrame = <<>> /\ ~r.isLast /\ ~CancelEffective(r) /\ ~r.shutdown THEN dequeueNextFrame(r) ELSE r

PeekUpTo(r, ahead, limit, end) ==
  IF limit <= Len(ahead) THEN <<SubSeq(ahead, 1, limit), end>> ELSE <<<<>>, "">>

PeekSees(r0, n) ==
  LET r == PeekDequeues(r0)
      cur == r.currentFrame
      ahead == cur \o Ahead(r.queue, r.readPos + Len(cur))
  IN IF r0.isLast /\ r0.currentFrame = <<>> THEN <<<<>>, "eof">>
     ELSE IF CancelEffective(r) THEN <<<<>>, "cancelled">>
     ELSE IF r.shutdown THEN <<<<>>, "shutdown">>
     ELSE IF cur = <<>> THEN <<<<>>, IF r.isLast \/ r.readPos >= r.finalOffset THEN "eof" ELSE "">>
     ELSE IF Len(ahead) >= n THEN <<SubSeq(ahead, 1, n), "data">>
     ELSE IF r.isLast THEN <<cur, "eof">>
     ELSE IF r.remotely /\ r.readPos + n > r.reliableSize /\ r.reliableSize - r.readPos <= Len(ahead)
     THEN PeekUpTo(r, ahead, r.reliableSize - r.readPos, "cancelled")
     ELSE IF r.readPos + n > r.finalOffset THEN PeekUpTo(r, ahead, r.finalOffset - r.readPos, "eof")
     ELSE <<<<>>, "">>

(* --- the other calls and the frames ------------------------------------ *)

CancelRead(x) ==
  IF x.r.locally \/ x.r.shutdown THEN x
  ELSE LET y == [x EXCEPT !.r.locally = TRUE]
           z == IF x.r.errorRead \/ x.r.remotely THEN y
                ELSE [y EXCEPT !.r = signalRead([@ EXCEPT !.stopSending = TRUE])]
       IN IF ReceiveCompletes(z.r) THEN AbandonStream([z EXCEPT !.r.completed = TRUE]) ELSE z

Counted(x, offset, final) ==
  [x EXCEPT !.str = UpdateHighestReceived(@, offset, final), !.conn = IncrementHighestReceived(@, x.str, offset),
            !.r.finalOffset = IF final THEN offset ELSE @]
Refused(x, offset, final) ==
  IF FinalSizeError(x.str, offset, final) THEN "FINAL_SIZE_ERROR"
  ELSE IF FlowControlError(x.str, x.conn, offset) THEN "FLOW_CONTROL_ERROR" ELSE ""

handleStreamFrame(x, f) ==
  LET y == Counted(x, f.off + Len(f.data), f.fin)
      z == IF x.r.locally THEN y
           ELSE [y EXCEPT !.r = signalRead([@ EXCEPT !.queue = push(@, f.data, f.off, NoBuf).fs])]
  IN IF ReceiveCompletes(z.r) THEN AbandonStream([z EXCEPT !.r.completed = TRUE]) ELSE z

handleResetStreamFrame(x, f) ==
  LET y == Counted(x, f.final, TRUE)
      lower == (~x.r.remotely /\ x.r.reliableSize = 0) \/ f.rel < x.r.reliableSize
      z == [y EXCEPT !.r.reliableSize = IF lower THEN f.rel ELSE @]
      w == IF z.r.readPos >= z.r.reliableSize THEN AbandonStream(z) ELSE z
      v == IF x.r.remotely \/ x.r.locally THEN w ELSE [w EXCEPT !.r = signalRead([@ EXCEPT !.remotely = TRUE])]
  IN [v EXCEPT !.r.completed = @ \/ ReceiveCompletes(v.r)]

closeForShutdownReceive(r) == signalRead([r EXCEPT !.shutdown = TRUE])

(* getControlFrame: STOP_SENDING goes first.  fast: the window is consumed *)
(* quickly enough to be enlarged.                                          *)
AfterStopSending(r) == [r EXCEPT !.stopSending = FALSE]
GetWindowUpdate(x, fast) ==
  LET str == getWindowUpdate(x.str, fast)
  IN IF x.str.final THEN [x EXCEPT !.r.maxStreamData = FALSE]
     ELSE [x EXCEPT !.r.maxStreamData = FALSE, !.str = str, !.conn = EnsureMinimumWindowSize(@, x.str, str)]
=============================================================================
