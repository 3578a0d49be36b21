---------------------------- MODULE TLCPTransport --------------------------
(***************************************************************************)
(* The dials of the TLCP http.Transport (https/client.go, tlcp.DialContext)*)
(* : a goroutine dials and hands its result over; the caller takes it or   *)
(* gives up when its context ends and leaves a reaper that closes a late   *)
(* connection.  Dial returns a *Conn, which becomes a net.Conn in the      *)
(* result: without a connection that is an interface that holds a nil      *)
(* pointer, and not a nil interface.                                       *)
(***************************************************************************)
EXTENDS Integers

CONSTANTS Dials, Scenarios

VARIABLES sc,      (* what each server does, whether contexts have a deadline *)
          ctx,     (* the context of each call: "live", "cancelled", "expired" *)
          dialer,  (* the goroutine: "tcp", "handshake", "done" *)
          socket,  (* "none", "open", "closed" *)
          limit,   (* is there a deadline on the socket *)
          ch,      (* resCh: "empty", "conn", "nil", "taken" *)
          caller,  (* "waits", "conn", "error", "gave up" *)
          reaper,  (* "none", "waits", "done" *)
          crashed  (* a panic nobody recovers *)

vars == <<sc, ctx, dialer, socket, limit, ch, caller, reaper, crashed>>

Init ==
  /\ sc \in Scenarios
  /\ ctx = [d \in Dials |-> "live"] /\ dialer = [d \in Dials |-> "tcp"]
  /\ socket = [d \in Dials |-> "none"] /\ limit = [d \in Dials |-> FALSE]
  /\ ch = [d \in Dials |-> "empty"] /\ caller = [d \in Dials |-> "waits"]
  /\ reaper = [d \in Dials |-> "none"] /\ crashed = FALSE

Set(f, d, x) == [f EXCEPT ![d] = x]

(* The caller's context ends: it is cancelled, or its deadline passes.     *)
Cancel(d) ==
  /\ ctx[d] = "live" /\ sc.cancels
  /\ ctx' = Set(ctx, d, "cancelled")
  /\ UNCHANGED <<sc, dialer, socket, limit, ch, caller, reaper, crashed>>
Expire(d) ==
  /\ ctx[d] = "live" /\ sc.deadline
  /\ ctx' = Set(ctx, d, "expired")
  /\ UNCHANGED <<sc, dialer, socket, limit, ch, caller, reaper, crashed>>

(* The goroutine.  net.Dialer watches the context; the handshake only has  *)
(* the deadline of the context on its socket.                              *)
HandsOver(d, x, s) ==
  /\ dialer' = Set(dialer, d, "done") /\ ch' = Set(ch, d, x) /\ socket' = Set(socket, d, s)
  /\ UNCHANGED <<sc, ctx, caller, reaper, crashed>>

TCPConnects(d) ==
  /\ dialer[d] = "tcp" /\ ctx[d] = "live" /\ sc.server[d] # "unreachable"
  /\ dialer' = Set(dialer, d, "handshake") /\ socket' = Set(socket, d, "open")
  /\ limit' = Set(limit, d, sc.deadline)
  /\ UNCHANGED <<sc, ctx, ch, caller, reaper, crashed>>
TCPFails(d) ==
  /\ dialer[d] = "tcp" /\ (ctx[d] # "live" \/ sc.server[d] = "unreachable")
  /\ HandsOver(d, "nil", "none") /\ UNCHANGED limit
HandshakeDone(d) ==
  /\ dialer[d] = "handshake" /\ sc.server[d] = "serves"
  /\ HandsOver(d, "conn", "open") /\ limit' = Set(limit, d, FALSE)
HandshakeFails(d) ==
  /\ dialer[d] = "handshake" /\ (sc.server[d] = "fails" \/ (ctx[d] = "expired" /\ limit[d]))
  /\ HandsOver(d, "nil", "closed") /\ limit' = Set(limit, d, FALSE)

(* The select of the caller: either branch, if both are ready.             *)
Take(d) ==
  /\ caller[d] = "waits" /\ ch[d] \in {"conn", "nil"}
  /\ ch' = Set(ch, d, "taken") /\ caller' = Set(caller, d, IF ch[d] = "conn" THEN "conn" ELSE "error")
  /\ UNCHANGED <<sc, ctx, dialer, socket, limit, reaper, crashed>>
GiveUp(d) ==
  /\ caller[d] = "waits" /\ ctx[d] # "live"
  /\ caller' = Set(caller, d, "gave up") /\ reaper' = Set(reaper, d, "waits")
  /\ UNCHANGED <<sc, ctx, dialer, socket, limit, ch, crashed>>

(* r.conn != nil holds for the nil pointer too, and Close dereferences it. *)
Reap(d) ==
  /\ reaper[d] = "waits" /\ ch[d] \in {"conn", "nil"}
  /\ ch' = Set(ch, d, "taken") /\ reaper' = Set(reaper, d, "done")
  /\ IF ch[d] = "conn" THEN socket' = Set(socket, d, "closed") /\ UNCHANGED crashed
     ELSE crashed' = TRUE /\ UNCHANGED socket
  /\ UNCHANGED <<sc, ctx, dialer, limit, caller>>

Steps(d) == TCPConnects(d) \/ TCPFails(d) \/ HandshakeDone(d) \/ HandshakeFails(d) \/ Take(d) \/ GiveUp(d) \/ Reap(d)
Progress == ~crashed /\ \E d \in Dials : Steps(d)
Expires == ~crashed /\ \E d \in Dials : Expire(d)
Next == Progress \/ Expires \/ (~crashed /\ \E d \in Dials : Cancel(d))

Spec == Init /\ [][Next]_vars
(* Goroutines run and timers fire; each dial takes finitely many steps, so *)
(* one condition is enough for all of them.                                *)
Fair == Progress \/ Expires
FairSpec == Spec /\ WF_vars(Fair)

----------------------------------------------------------------------------
(* Properties.                                                             *)

(* A result is read once, by the caller or by the reaper it left behind.   *)
TypeOK ==
  \A d \in Dials :
    /\ reaper[d] # "none" <=> caller[d] = "gave up"
    /\ ch[d] = "taken" => dialer[d] = "done" /\ (caller[d] \in {"conn", "error"} \/ reaper[d] = "done")
    /\ caller[d] = "conn" => socket[d] = "open"

(* "Reap the eventual connection so nothing leaks": a connection that was  *)
(* established belongs to a caller or is closed in the end.                *)
AllOwned == crashed \/ \A d \in Dials : ch[d] \in {"conn", "taken"} => caller[d] \in {"conn", "error"} \/ socket[d] = "closed"

(* "Context cancellation is fully honored": a call returns once its        *)
(* context has ended, also if the server never answers the handshake.      *)
AllReturned == crashed \/ \A d \in Dials : ctx[d] # "live" => caller[d] # "waits"

(* A call that is given up harms nobody else: no panic in the reaper, when *)
(* the dial it waits for failed.                                           *)
ReaperSafe == ~crashed

(* "A watchdog closes the in-flight connection when ctx is done": the      *)
(* socket of a call that was given up is closed, also if the server never  *)
(* answers.                                                                *)
InFlightClosed == []<>(crashed \/ \A d \in Dials : caller[d] = "gave up" => socket[d] # "open")
=============================================================================
