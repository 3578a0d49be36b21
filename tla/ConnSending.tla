---------------------------- MODULE ConnSending ----------------------------
(***************************************************************************)
(* The run loop of a connection (Conn.run) and the goroutine that writes   *)
(* its packets (sendQueue.Run), as the two meet in the send queue: the     *)
(* bounded channel of packets and the one-slot channel `available` that    *)
(* wakes a loop that found the queue full.  The application adds data and  *)
(* schedules sending, packets arrive from the transport, the connection is *)
(* closed from outside or by a failing write, and the client may move to   *)
(* another path, which drains the queue and starts a new one.  Every       *)
(* channel operation and every look at the length of the queue is a step.  *)
(***************************************************************************)
EXTENDS Integers

CONSTANTS sendQueueCapacity, maxPacketsToProcess, MaxConnUnprocessedPackets,
          Scenarios  (* what may happen: packets' worth of data written and packets that
                        arrive, and whether the client moves to another path, a write
                        fails, the connection is closed, the pacer defers sending *)

VARIABLES sc,
          q,     (* the send queue: len, available, closeCalled *)
          rpc,   (* where sendQueue.Run is *)
          should,(* its shouldClose *)
          werr,  (* a write failed *)
          lpc,   (* where the run loop is *)
          loop,  (* its variables: waitOn (sendQueueAvailable is set), pacing *)
          app,   (* data to send, data added so far, a call about to schedule, arrivals *)
          chans, (* sendingScheduled, notifyReceivedPacket, closeChan *)
          rcv,   (* receivedPackets *)
          panic

vars == <<sc, q, rpc, should, werr, lpc, loop, app, chans, rcv, panic>>
runner == <<rpc, should, werr>>
others == <<app, chans, rcv>>

newSendQueue == [len |-> 0, available |-> FALSE, closeCalled |-> FALSE]
WouldBlock == q.len = sendQueueCapacity
runStopped == rpc = "stopped"

Init ==
  /\ sc \in Scenarios
  /\ q = newSendQueue
  /\ rpc = "select" /\ should = FALSE /\ werr = FALSE
  /\ lpc = "top"
  /\ loop = [waitOn |-> FALSE, pacing |-> "none", moved |-> FALSE]
  /\ app = [data |-> 0, added |-> 0, pending |-> FALSE, arrived |-> 0]
  /\ chans = [scheduled |-> FALSE, notify |-> FALSE, close |-> FALSE]
  /\ rcv = 0
  /\ panic = FALSE

----------------------------------------------------------------------------
(* sendQueue.Run.                                                          *)

Return == should /\ q.len = 0

RunReturn ==
  /\ rpc = "select" /\ Return
  /\ rpc' = "stopped"
  /\ UNCHANGED <<sc, q, should, werr, lpc, loop, others, panic>>

RunSeesClose ==
  /\ rpc = "select" /\ ~Return
  /\ q.closeCalled /\ ~should
  /\ should' = TRUE
  /\ UNCHANGED <<sc, q, rpc, werr, lpc, loop, others, panic>>

RunTakes ==
  /\ rpc = "select" /\ ~Return
  /\ q.len > 0
  /\ q' = [q EXCEPT !.len = @ - 1]
  /\ rpc' = "write"
  /\ UNCHANGED <<sc, should, werr, lpc, loop, others, panic>>

RunWrites ==
  /\ rpc = "write"
  /\ rpc' = "signal"
  /\ UNCHANGED <<sc, q, should, werr, lpc, loop, others, panic>>

(* Any error but that the datagram is too large ends the connection.       *)
RunFails ==
  /\ rpc = "write" /\ sc.fail
  /\ rpc' = "stopped" /\ werr' = TRUE
  /\ chans' = [chans EXCEPT !.close = TRUE]
  /\ UNCHANGED <<sc, q, should, lpc, loop, app, rcv, panic>>

RunSignals ==
  /\ rpc = "signal"
  /\ q' = [q EXCEPT !.available = TRUE]
  /\ rpc' = "select"
  /\ UNCHANGED <<sc, should, werr, lpc, loop, others, panic>>

----------------------------------------------------------------------------
(* The run loop, one step per channel operation.                           *)

Goto(pc) == lpc' = pc

(* handlePackets: at most maxPacketsToProcess packets, and another         *)
(* notification if some are left.  None may be processed, if they cannot   *)
(* be decrypted.                                                           *)
Handled(processed, next) ==
  LET n == IF rcv < maxPacketsToProcess THEN rcv ELSE maxPacketsToProcess
  IN /\ rcv' = rcv - n
     /\ processed => n > 0
     /\ lpc' = next
     /\ chans' = [chans EXCEPT !.notify = (@ /\ lpc # "wait") \/ rcv - n > 0]

LoopCloses ==
  /\ lpc = "top" /\ chans.close
  /\ Goto("close")
  /\ UNCHANGED <<sc, q, runner, loop, others, panic>>

LoopTop(processed) ==
  /\ lpc = "top" /\ ~chans.close
  /\ Handled(processed, IF ~loop.waitOn /\ (processed \/ loop.pacing = "now") THEN "check" ELSE "wait")
  /\ UNCHANGED <<sc, q, runner, loop, app, panic>>

WaitClosed ==
  /\ lpc = "wait" /\ chans.close
  /\ Goto("close")
  /\ UNCHANGED <<sc, q, runner, loop, others, panic>>

(* The timer is always set, if only to the idle timeout.                   *)
WaitTimer ==
  /\ lpc = "wait"
  /\ Goto("check")
  /\ UNCHANGED <<sc, q, runner, loop, others, panic>>

WaitScheduled ==
  /\ lpc = "wait" /\ chans.scheduled
  /\ chans' = [chans EXCEPT !.scheduled = FALSE]
  /\ Goto("check")
  /\ UNCHANGED <<sc, q, runner, loop, app, rcv, panic>>

WaitAvailable ==
  /\ lpc = "wait" /\ loop.waitOn /\ q.available
  /\ q' = [q EXCEPT !.available = FALSE]
  /\ Goto("check")
  /\ UNCHANGED <<sc, runner, loop, others, panic>>

WaitNotified(processed) ==
  /\ lpc = "wait" /\ chans.notify
  /\ Handled(processed, IF processed THEN "check" ELSE "top")
  /\ UNCHANGED <<sc, q, runner, loop, app, panic>>

(* switchToNewPath closes the queue, waits for it to be written out, and   *)
(* starts another.                                                         *)
Switch ==
  /\ lpc = "check" /\ sc.migrate /\ ~loop.moved
  /\ q' = [q EXCEPT !.closeCalled = TRUE]
  /\ loop' = [loop EXCEPT !.moved = TRUE]
  /\ Goto("switching")
  /\ UNCHANGED <<sc, runner, others, panic>>

Switched ==
  /\ lpc = "switching" /\ runStopped
  /\ q' = newSendQueue
  /\ rpc' = "select" /\ should' = FALSE
  /\ Goto("check")
  /\ UNCHANGED <<sc, werr, loop, others, panic>>

(* Wait for the queue if it is full.                                       *)
WaitForSpace == loop' = [loop EXCEPT !.waitOn = TRUE, !.pacing = "none"]

LoopBlocked ==
  /\ lpc = "check" /\ WouldBlock
  /\ WaitForSpace
  /\ Goto("top")
  /\ UNCHANGED <<sc, q, runner, others, panic>>

LoopChecked ==
  /\ lpc = "check" /\ ~WouldBlock
  /\ IF chans.close THEN Goto("close") /\ UNCHANGED loop
     ELSE Goto("send") /\ loop' = [loop EXCEPT !.pacing = "none"]
  /\ UNCHANGED <<sc, q, runner, others, panic>>

NothingToPack ==
  /\ lpc = "send" /\ app.data = 0
  /\ Goto("after")
  /\ UNCHANGED <<sc, q, runner, loop, others, panic>>

(* Send: the channel, or the end of the goroutine, or a panic.             *)
SendOutcomes ==
  {pc \in {"pushed", "sent", "panicked"} :
     CASE pc = "pushed" -> ~WouldBlock [] pc = "sent" -> runStopped [] OTHER -> WouldBlock /\ ~runStopped}
Push ==
  /\ lpc = "send" /\ app.data > 0
  /\ app' = [app EXCEPT !.data = @ - 1]
  /\ \E pc \in SendOutcomes :
       /\ q' = [q EXCEPT !.len = IF pc = "pushed" THEN @ + 1 ELSE @]
       /\ panic' = (pc = "panicked")
       /\ Goto(pc)
  /\ UNCHANGED <<sc, runner, loop, chans, rcv>>

Pushed ==
  /\ lpc = "pushed"
  /\ Goto(IF WouldBlock THEN "drain" ELSE "sent")
  /\ UNCHANGED <<sc, q, runner, loop, others, panic>>

Drain ==
  /\ lpc = "drain"
  /\ q' = [q EXCEPT !.available = FALSE]
  /\ Goto("sent")
  /\ UNCHANGED <<sc, runner, loop, others, panic>>

(* sendPacketsWithoutGSO after a packet: go on unless the queue is full,   *)
(* the pacer says later, or packets have arrived.                          *)
SentFull ==
  /\ lpc = "sent" /\ WouldBlock
  /\ Goto("after")
  /\ UNCHANGED <<sc, q, runner, loop, others, panic>>

SentPaced ==
  /\ lpc = "sent" /\ ~WouldBlock /\ sc.pace
  /\ loop' = [loop EXCEPT !.pacing = "later"]
  /\ Goto("after")
  /\ UNCHANGED <<sc, q, runner, others, panic>>

SentMore ==
  /\ lpc = "sent" /\ ~WouldBlock
  /\ IF rcv > 0 THEN Goto("after") /\ loop' = [loop EXCEPT !.pacing = "now"]
     ELSE Goto("send") /\ UNCHANGED loop
  /\ UNCHANGED <<sc, q, runner, others, panic>>

After ==
  /\ lpc = "after"
  /\ IF WouldBlock THEN WaitForSpace ELSE loop' = [loop EXCEPT !.waitOn = FALSE]
  /\ Goto("top")
  /\ UNCHANGED <<sc, q, runner, others, panic>>

Close ==
  /\ lpc = "close"
  /\ q' = [q EXCEPT !.closeCalled = TRUE]
  /\ Goto("closing")
  /\ UNCHANGED <<sc, runner, loop, others, panic>>

(* The CONNECTION_CLOSE is written once the queue is out.                  *)
Closed ==
  /\ lpc = "closing" /\ runStopped
  /\ Goto("closed")
  /\ UNCHANGED <<sc, q, runner, loop, others, panic>>

----------------------------------------------------------------------------
(* The application, the transport and whoever closes.                      *)

AddData ==
  /\ app.added < sc.writes /\ ~app.pending
  /\ app' = [app EXCEPT !.data = @ + 1, !.added = @ + 1, !.pending = TRUE]
  /\ UNCHANGED <<sc, q, runner, lpc, loop, chans, rcv, panic>>

scheduleSending ==
  /\ app.pending
  /\ app' = [app EXCEPT !.pending = FALSE]
  /\ chans' = [chans EXCEPT !.scheduled = TRUE]
  /\ UNCHANGED <<sc, q, runner, lpc, loop, rcv, panic>>

handlePacket ==
  /\ app.arrived < sc.arrivals
  /\ app' = [app EXCEPT !.arrived = @ + 1]
  /\ IF rcv >= MaxConnUnprocessedPackets THEN UNCHANGED <<rcv, chans>>
     ELSE rcv' = rcv + 1 /\ chans' = [chans EXCEPT !.notify = TRUE]
  /\ UNCHANGED <<sc, q, runner, lpc, loop, panic>>

CloseWithError ==
  /\ sc.close /\ ~chans.close
  /\ chans' = [chans EXCEPT !.close = TRUE]
  /\ UNCHANGED <<sc, q, runner, lpc, loop, app, rcv, panic>>

----------------------------------------------------------------------------

Run == RunReturn \/ RunSeesClose \/ RunTakes \/ RunWrites \/ RunFails \/ RunSignals
LoopEvents ==
  \/ LoopCloses \/ WaitClosed \/ WaitScheduled \/ WaitAvailable
  \/ \E processed \in BOOLEAN : LoopTop(processed) \/ WaitNotified(processed)
LoopSteps ==
  \/ Switch \/ Switched \/ LoopBlocked \/ LoopChecked \/ NothingToPack \/ Push \/ Pushed \/ Drain
  \/ SentFull \/ SentPaced \/ SentMore \/ After \/ Close \/ Closed
Loop == LoopEvents \/ LoopSteps
Env == AddData \/ scheduleSending \/ handlePacket \/ CloseWithError

Next == Run \/ Loop \/ WaitTimer \/ Env

Spec == Init /\ [][Next]_vars

(* Goroutines that can run do run, and a timer that is set fires.          *)
FairSpec == Spec /\ WF_vars(Run) /\ WF_vars(Loop) /\ WF_vars(WaitTimer) /\ WF_vars(scheduleSending)

----------------------------------------------------------------------------

TypeOK ==
  /\ q.len \in 0 .. sendQueueCapacity /\ rcv \in 0 .. MaxConnUnprocessedPackets
  /\ rpc \in {"select", "write", "signal", "stopped"}
  /\ loop.pacing \in {"none", "later", "now"}

(* Send is only called with room in the queue: the panic "sendQueue.Send   *)
(* would have blocked" is not reached, although the loop looked at the     *)
(* length of the queue some steps earlier (sendQueue.Send, Conn.run).      *)
SendNeverBlocks == ~panic

(* A loop that waits for the queue is woken: there is a signal, or a       *)
(* packet whose write will give one, although Send clears the signal while *)
(* Run may be about to give it (sendQueue.Send, Run).                      *)
FullQueueWakesLoop ==
  lpc = "wait" /\ loop.waitOn => q.available \/ q.len > 0 \/ rpc \in {"write", "signal"} \/ chans.close

(* Every packet queued is written before the CONNECTION_CLOSE, and before  *)
(* the connection moves to another path, unless a write failed             *)
(* (sendQueue.Run: "make sure that all queued packets are actually sent    *)
(* out").                                                                  *)
FlushedBeforeEnd == runStopped /\ ~werr => q.len = 0

(* Data the application added is sent, unless the connection closes.       *)
NothingLeft == app.data = 0 \/ lpc = "closed"

(* A loop that waits while packets are queued has been notified of them,  *)
(* although it handles only maxPacketsToProcess of them at a time and the  *)
(* notifications of several arrivals are one (handlePackets, handlePacket).*)
PacketsNotified == lpc = "wait" /\ rcv > 0 => chans.notify

(* A connection that is asked to close, or whose write failed, gets to     *)
(* write its CONNECTION_CLOSE: nobody waits for a goroutine that is gone   *)
(* (Conn.run, sendQueue.Close, switchToNewPath).                           *)
CloseDone == chans.close => lpc = "closed"

(* A loop that goes to wait with data left, room in the queue and nothing  *)
(* that tells it to send later, has been told to send (Conn.run: "Wait     *)
(* until there's space to enqueue new packets").                           *)
SpaceIsUsed ==
  lpc = "wait" /\ app.data > 0 /\ ~WouldBlock /\ rpc = "select"
    => chans.scheduled \/ app.pending \/ loop.waitOn \/ loop.pacing = "later" \/ chans.close

=============================================================================
