----------------------------- MODULE ConnTimers ----------------------------
(***************************************************************************)
(* The timers of a QUIC connection (connection.go): handshake timeout,     *)
(* idle timeout, keep-alive, loss detection, and the one timer of the run  *)
(* loop that stands for all of them.  Two endpoints over a network that    *)
(* delays and loses packets, each of which may die.  Time is kept as ages, *)
(* in ticks: a tick passes only while no timer has fired and no packet is  *)
(* late.  Acknowledgments are sent at once.                                *)
(***************************************************************************)
EXTENDS Integers, Sequences, FiniteSets

CONSTANTS MaxIdleTimeout, HandshakeIdleTimeout, PTO,  (* in ticks *)
          MaxDelay,     (* of a packet *)
          MaxInFlight,  (* packets per direction *)
          Scenarios

VARIABLES sc,     (* keepAlive of each endpoint, losses, who may die, who sends, is the handshake stuck *)
          ep,     (* the endpoints, see Endpoint *)
          net,    (* packets under way to each endpoint: [el, ack, age] *)
          losses  (* packets lost *)

vars == <<sc, ep, net, losses>>

Ends == {"client", "server"}
Other(e) == IF e = "client" THEN "server" ELSE "client"
Least(S) == CHOOSE x \in S : \A y \in S : x <= y
Most(a, b) == IF a > b THEN a ELSE b
Never == 99

(* rcv, sent, created: ages (sent = Never: no ack-eliciting packet since   *)
(* the last one received); out: age of the newest unacknowledged           *)
(* ack-eliciting packet, pto: probes sent for it; got: has the peer's      *)
(* newest one; steps: handshake packets still to receive.                  *)
Endpoint(e) ==
  [state |-> "open", steps |-> IF e = "client" THEN 1 ELSE 2, created |-> 0, rcv |-> 0, sent |-> Never, ping |-> FALSE,
   out |-> Never, pto |-> 0, got |-> FALSE, blocked |-> "none", timer |-> HandshakeIdleTimeout]
Complete(c) == c.steps = 0

----------------------------------------------------------------------------
(* Deadlines, as ticks from now.                                           *)

idleTimeoutAge(c) == Least({c.rcv, c.sent})
nextIdleTimeout(c) == Most(MaxIdleTimeout, 3 * PTO) - idleTimeoutAge(c)
(* Before the peer's parameters arrive the interval is zero.               *)
keepAliveInterval(e, c) ==
  Most(IF Complete(c) THEN Least({sc.keepAlive[e], MaxIdleTimeout \div 2}) ELSE 0, (3 * PTO) \div 2)
nextKeepAlive(e, c) ==
  IF sc.keepAlive[e] = 0 \/ c.ping THEN Never ELSE keepAliveInterval(e, c) - c.rcv
handshakeTimeout == 2 * HandshakeIdleTimeout
lossTimeout(c) == IF c.out = Never THEN Never ELSE PTO * 2^c.pto - c.out

(* The keep-alive takes the place of the idle timeout.                     *)
BaseDeadline(e, c) ==
  IF ~Complete(c) THEN Least({handshakeTimeout - c.created, HandshakeIdleTimeout - idleTimeoutAge(c)})
  ELSE IF c.blocked # "none" \/ nextKeepAlive(e, c) = Never THEN nextIdleTimeout(c)
  ELSE nextKeepAlive(e, c)
maybeResetTimer(e, c) ==
  [c EXCEPT !.timer = Most(0, IF c.blocked = "hard" THEN BaseDeadline(e, c) ELSE Least({BaseDeadline(e, c), lossTimeout(c)}))]

----------------------------------------------------------------------------
(* Sending and receiving.                                                  *)

RegisterSent(c) == [c EXCEPT !.sent = IF @ = Never THEN 0 ELSE @, !.out = 0]

(* What is under way to e no longer acknowledges its newest packet.        *)
Outdated(packets) == [i \in DOMAIN packets |-> [packets[i] EXCEPT !.ack = FALSE]]
Room(e) == Len(net[Other(e)]) < MaxInFlight
Transmit(e, el, c) ==
  net' = [net EXCEPT ![Other(e)] = Append(@, [el |-> el, ack |-> c.got, age |-> 0]), ![e] = IF el THEN Outdated(@) ELSE @]

Unseen(d) == [ep[d] EXCEPT !.got = FALSE]
SendsEliciting(e, c) ==
  /\ Transmit(e, TRUE, c)
  /\ ep' = [ep EXCEPT ![e] = maybeResetTimer(e, RegisterSent(c)), ![Other(e)] = Unseen(Other(e))]

(* The endpoint goes away without a word.                                  *)
Die(e) ==
  /\ ep[e].state = "open" /\ sc.dies[e]
  /\ ep' = [ep EXCEPT ![e].state = "dead"]
  /\ UNCHANGED <<sc, net, losses>>

Lose(e) ==
  /\ net[e] # <<>> /\ losses < sc.losses
  /\ net' = [net EXCEPT ![e] = Tail(@)] /\ losses' = losses + 1
  /\ UNCHANGED <<sc, ep>>

(* A packet: the ages start again, a probe is no longer needed; if it asks *)
(* for an acknowledgment one is sent, unless the endpoint is blocked.      *)
Advanced(c) == IF sc.stuck THEN c.steps ELSE Most(0, c.steps - 1)
Received(c, p) ==
  [c EXCEPT !.rcv = 0, !.sent = Never, !.ping = FALSE, !.steps = Advanced(c), !.got = IF p.el THEN TRUE ELSE @,
            !.out = IF p.ack THEN Never ELSE @, !.pto = 0, !.blocked = "none"]
Answers(e, p) == p.el \/ (~Complete(ep[e]) /\ ep[e].out = Never)
Receive(e) ==
  /\ ep[e].state = "open" /\ net[e] # <<>>
  /\ Answers(e, Head(net[e])) => Room(e)
  /\ ep' = [ep EXCEPT ![e] = maybeResetTimer(e, Received(@, Head(net[e])))]
  /\ net' = IF Answers(e, Head(net[e]))
            THEN [net EXCEPT ![e] = Tail(@), ![Other(e)] = Append(@, [el |-> FALSE, ack |-> Received(ep[e], Head(net[e])).got, age |-> 0])]
            ELSE [net EXCEPT ![e] = Tail(@)]
  /\ UNCHANGED <<sc, losses>>
(* Nobody is there to receive it.                                          *)
Drop(e) ==
  /\ ep[e].state # "open" /\ net[e] # <<>>
  /\ net' = [net EXCEPT ![e] = Tail(@)]
  /\ UNCHANGED <<sc, ep, losses>>

(* The application sends, or finds that it cannot: congestion, or, for a   *)
(* server, the amplification limit.                                        *)
Write(e) ==
  /\ ep[e].state = "open" /\ ep[e].timer > 0 /\ sc.writes[e] /\ ep[e].blocked = "none" /\ Room(e)
  /\ (e = "server" => ep[e].steps < 2)
  /\ SendsEliciting(e, ep[e])
  /\ UNCHANGED <<sc, losses>>
Block(e, how) ==
  /\ ep[e].state = "open" /\ sc.blocks /\ ep[e].blocked = "none" /\ ep[e].out # Never /\ ep[e].timer > 0
  /\ how = "hard" => e = "server" /\ ~Complete(ep[e])
  /\ ep' = [ep EXCEPT ![e] = maybeResetTimer(e, [@ EXCEPT !.blocked = how])]
  /\ UNCHANGED <<sc, net, losses>>

----------------------------------------------------------------------------
(* The run loop, when its timer fires.                                     *)

(* The loss alarm queues a probe; then the keep-alive, which goes before   *)
(* the timeouts.                                                           *)
LossDue(c) == c.blocked # "hard" /\ lossTimeout(c) <= 0
Probing(c) == IF LossDue(c) THEN [c EXCEPT !.pto = Least({@ + 1, 3})] ELSE c
KeepAliveDue(e, c) == nextKeepAlive(e, c) <= 0
TimedOut(c) ==
  IF ~Complete(c) THEN c.created >= handshakeTimeout \/ idleTimeoutAge(c) >= HandshakeIdleTimeout
  ELSE nextIdleTimeout(c) <= 0
Sends(e, c) == LossDue(ep[e]) \/ (c.ping /\ ~ep[e].ping /\ Complete(c) /\ c.blocked = "none")
Fires(e, c) ==
  IF ~c.ping /\ KeepAliveDue(e, c) THEN [c EXCEPT !.ping = TRUE] ELSE IF TimedOut(c) THEN [c EXCEPT !.state = "timeout"] ELSE c
TimerFires(e) ==
  /\ ep[e].state = "open" /\ ep[e].timer = 0
  /\ LET c == Fires(e, Probing(ep[e]))
     IN IF c.state = "open" /\ Sends(e, c) THEN Room(e) /\ SendsEliciting(e, c)
        ELSE ep' = [ep EXCEPT ![e] = maybeResetTimer(e, c)] /\ UNCHANGED net
  /\ UNCHANGED <<sc, losses>>

(* The client's first flight.                                              *)
Init ==
  /\ sc \in Scenarios
  /\ ep = [e \in Ends |-> IF e = "client" THEN maybeResetTimer(e, RegisterSent(Endpoint(e))) ELSE Endpoint(e)]
  /\ net = [e \in Ends |-> IF e = "server" THEN <<[el |-> TRUE, ack |-> FALSE, age |-> 0]>> ELSE <<>>]
  /\ losses = 0

Older(x) == IF x = Never THEN Never ELSE Least({x + 1, Never - 1})
Aged(c) == [c EXCEPT !.created = IF Complete(c) THEN @ ELSE @ + 1, !.rcv = @ + 1, !.sent = Older(@), !.out = Older(@), !.timer = @ - 1]
Tick ==
  /\ \E e \in Ends : ep[e].state = "open"
  /\ \A e \in Ends : (ep[e].state = "open" => ep[e].timer > 0) /\ \A i \in DOMAIN net[e] : net[e][i].age < MaxDelay
  /\ ep' = [e \in Ends |-> IF ep[e].state = "open" THEN Aged(ep[e]) ELSE ep[e]]
  /\ net' = [e \in Ends |-> [i \in DOMAIN net[e] |-> [net[e][i] EXCEPT !.age = @ + 1]]]
  /\ UNCHANGED <<sc, losses>>

Next ==
  \/ Tick
  \/ \E e \in Ends : Die(e) \/ Lose(e) \/ Receive(e) \/ Drop(e) \/ Write(e) \/ TimerFires(e)
  \/ \E e \in Ends, how \in {"congestion", "hard"} : Block(e, how)

Spec == Init /\ [][Next]_vars

----------------------------------------------------------------------------
(* Properties.                                                             *)

(* One timer stands for every deadline: it never fires after the time at   *)
(* which the connection has to be given up.                                *)
TypeOK ==
  \A e \in Ends : ep[e].state = "open" =>
    IF Complete(ep[e]) THEN ep[e].timer <= Most(0, nextIdleTimeout(ep[e]))
    ELSE ep[e].timer <= Most(0, Least({handshakeTimeout - ep[e].created, HandshakeIdleTimeout - idleTimeoutAge(ep[e])}))

(* A peer that is gone is noticed, however much the application writes:    *)
(* only the first packet after the last one received restarts the idle     *)
(* timeout, so a connection outlives its peer by twice the timeout at most. *)
DeadPeerNoticed == \A e \in Ends : ep[e].state = "open" /\ Complete(ep[e]) => ep[e].rcv <= 2 * Most(MaxIdleTimeout, 3 * PTO)

(* A handshake is over, one way or the other, within twice its idle        *)
(* timeout, even if packets keep arriving.                                 *)
HandshakeBounded == \A e \in Ends : ep[e].state = "open" /\ ~Complete(ep[e]) => ep[e].created <= 2 * HandshakeIdleTimeout

(* Keep-alives of one side keep both sides of an established connection    *)
(* open, while both live and the network loses no more than it may.        *)
KeptAlive ==
  (\E e \in Ends : sc.keepAlive[e] > 0) /\ (\A e \in Ends : Complete(ep[e])) =>
    \A e \in Ends : ep[e].state # "timeout" \/ \E d \in Ends : sc.dies[d]

=============================================================================
