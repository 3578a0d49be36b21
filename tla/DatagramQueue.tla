---------------------------- MODULE DatagramQueue --------------------------
(***************************************************************************)
(* The DATAGRAM frames of a connection (datagram_queue.go): goroutines     *)
(* that call SendDatagram and ReceiveDatagram, the packer that takes       *)
(* frames from the send queue, the frame handler that fills the receive    *)
(* queue, and the close of the connection.  `sent` and `rcvd` are channels *)
(* with one slot: two signals in a row are one.  A step ends where a       *)
(* goroutine unlocks the mutex or takes from a channel.  The frames to     *)
(* send are only counted.                                                  *)
(***************************************************************************)
EXTENDS Integers, Sequences, FiniteSets

CONSTANTS Senders, Receivers, maxDatagramSendQueueLen, maxDatagramRcvQueueLen,
          Scenarios   (* [senders, receivers, arrivals, closes] *)

VARIABLES sc, spc, rpc, sendQueue, rcvQueue, sent, rcvd, closed, scheduled, arrived

vars == <<sc, spc, rpc, sendQueue, rcvQueue, sent, rcvd, closed, scheduled, arrived>>
sendSide == <<spc, sendQueue, sent, scheduled>>
rcvSide == <<rpc, rcvQueue, rcvd, arrived>>

Init ==
  /\ sc \in Scenarios
  /\ spc = [s \in Senders |-> IF s \in sc.senders THEN "add" ELSE "returned"]
  /\ rpc = [r \in Receivers |-> IF r \in sc.receivers THEN "look" ELSE "returned"]
  /\ sendQueue = 0 /\ rcvQueue = <<>>
  /\ sent = FALSE /\ rcvd = FALSE /\ closed = FALSE /\ scheduled = FALSE
  /\ arrived = 0

(* Add, with the mutex: queue the frame, or forget an old signal and wait. *)

Add(s) ==
  /\ spc[s] = "add" /\ ~closed
  /\ IF sendQueue < maxDatagramSendQueueLen
     THEN sendQueue' = sendQueue + 1 /\ spc' = [spc EXCEPT ![s] = "hasData"] /\ UNCHANGED sent
     ELSE sent' = FALSE /\ spc' = [spc EXCEPT ![s] = "wait"] /\ UNCHANGED sendQueue
  /\ UNCHANGED <<sc, scheduled, closed, rcvSide>>

hasData(s) ==
  /\ spc[s] = "hasData"
  /\ scheduled' = TRUE
  /\ spc' = [spc EXCEPT ![s] = "returned"]
  /\ UNCHANGED <<sc, sendQueue, sent, closed, rcvSide>>

AddClosed(s) ==
  /\ spc[s] \in {"add", "wait"} /\ closed
  /\ spc' = [spc EXCEPT ![s] = "error"]
  /\ UNCHANGED <<sc, sendQueue, sent, scheduled, closed, rcvSide>>

AddWoken(s) ==
  /\ spc[s] = "wait" /\ sent
  /\ sent' = FALSE
  /\ spc' = [spc EXCEPT ![s] = "add"]
  /\ UNCHANGED <<sc, sendQueue, scheduled, closed, rcvSide>>


Pop ==
  /\ scheduled /\ sendQueue > 0 /\ ~closed
  /\ sendQueue' = sendQueue - 1
  /\ scheduled' = (sendQueue' > 0)
  /\ sent' = TRUE
  /\ UNCHANGED <<sc, spc, closed, rcvSide>>

PackNothing ==
  /\ scheduled /\ sendQueue = 0 /\ ~closed
  /\ scheduled' = FALSE
  /\ UNCHANGED <<sc, spc, sendQueue, sent, closed, rcvSide>>

HandleDatagramFrame ==
  /\ arrived < sc.arrivals /\ ~closed
  /\ arrived' = arrived + 1
  /\ IF Len(rcvQueue) < maxDatagramRcvQueueLen
     THEN rcvQueue' = Append(rcvQueue, arrived') /\ rcvd' = TRUE
     ELSE UNCHANGED <<rcvQueue, rcvd>>
  /\ UNCHANGED <<sc, rpc, closed, sendSide>>

(* Receive, with the mutex.                                                *)
Receive(r) ==
  /\ rpc[r] = "look"
  /\ IF rcvQueue # <<>> THEN rcvQueue' = Tail(rcvQueue) /\ rpc' = [rpc EXCEPT ![r] = "got"]
     ELSE rpc' = [rpc EXCEPT ![r] = "wait"] /\ UNCHANGED rcvQueue
  /\ UNCHANGED <<sc, rcvd, arrived, closed, sendSide>>

ReceiveAgain(r) ==
  /\ rpc[r] = "got"
  /\ rpc' = [rpc EXCEPT ![r] = "look"]
  /\ UNCHANGED <<sc, rcvQueue, rcvd, arrived, closed, sendSide>>

ReceiveWoken(r) ==
  /\ rpc[r] = "wait" /\ rcvd
  /\ rcvd' = FALSE
  /\ rpc' = [rpc EXCEPT ![r] = "look"]
  /\ UNCHANGED <<sc, rcvQueue, arrived, closed, sendSide>>

ReceiveClosed(r) ==
  /\ rpc[r] = "wait" /\ closed
  /\ rpc' = [rpc EXCEPT ![r] = "error"]
  /\ UNCHANGED <<sc, rcvQueue, rcvd, arrived, closed, sendSide>>

CloseWithError ==
  /\ sc.closes /\ ~closed
  /\ closed' = TRUE
  /\ UNCHANGED <<sc, sendSide, rcvSide>>

Sending == Pop \/ PackNothing \/ \E s \in Senders : Add(s) \/ hasData(s) \/ AddClosed(s) \/ AddWoken(s)
Receiving == \E r \in Receivers : Receive(r) \/ ReceiveAgain(r) \/ ReceiveWoken(r) \/ ReceiveClosed(r)
Next == Sending \/ Receiving \/ HandleDatagramFrame \/ CloseWithError

Spec == Init /\ [][Next]_vars
(* Goroutines that can run do.                                             *)
FairSpec == Spec /\ WF_vars(Sending) /\ WF_vars(Receiving)

----------------------------------------------------------------------------

TypeOK ==
  /\ sendQueue <= maxDatagramSendQueueLen /\ Len(rcvQueue) <= maxDatagramRcvQueueLen
  /\ arrived \in 0 .. sc.arrivals

(* A SendDatagram that waits for room is woken: there is a signal, a frame *)
(* whose Pop gives one, or another caller on its way, although two Pops    *)
(* give one signal and a caller that finds the queue full throws it away   *)
(* (Add: "drain any stale notification", Pop).                             *)
WaiterIsWoken ==
  (\E s \in Senders : spc[s] = "wait") /\ ~closed
    => sent \/ sendQueue > 0 \/ \E s \in Senders : spc[s] \in {"add", "hasData"}

(* Every SendDatagram returns, its frame sent unless the connection is     *)
(* closed.                                                                 *)
SendersDone == \A s \in sc.senders : spc[s] \in {"returned", "error"}

(* No receiver waits while a datagram is there for it, if every receiver   *)
(* that could take it waits (Receive, HandleDatagramFrame).                *)
DatagramWakes ==
  rcvQueue # <<>> /\ ~closed /\ (\A r \in sc.receivers : rpc[r] = "wait") /\ sc.receivers # {} => rcvd

(* A datagram that is queued wakes as many receivers as there are          *)
(* datagrams: nobody waits beside a datagram (ReceiveDatagram "gets a      *)
(* message received in a QUIC datagram").                                  *)
NobodyWaitsBesideData ==
  (\E r \in sc.receivers : rpc[r] = "wait") /\ rcvQueue # <<>> /\ ~closed
    => rcvd \/ \E r \in sc.receivers : rpc[r] = "look"

=============================================================================
