--------------------------- MODULE HybridListener --------------------------
(***************************************************************************)
(* The server of the https package: the accept loop, the lazy connections  *)
(* of HybridListener (https/listener.go), which find out the protocol and  *)
(* run the handshake on their first Read, those of tlcp.Listener, and      *)
(* net/http's server around them (external: it sets a read deadline,       *)
(* reads the request, handles it, waits for the next one; Close closes the *)
(* listener and then each connection, holding the server's mutex).  Time   *)
(* is the expiry of a deadline: a blocked read with a deadline fails.      *)
(***************************************************************************)
EXTENDS Integers, FiniteSets

CONSTANTS Conns, Scenarios

VARIABLES sc,       (* mode, handshakeTimeout, readTimeout, what each client does, what is reconfigured *)
          listener, (* [mask, timeout, open]: protocols allowed, is there a handshake timeout *)
          conn,     (* the connections, see Fresh *)
          client,   (* what each client does: "silent" once it sends nothing more *)
          srv       (* http.Server.Close: "no", "closing", "closed" *)

vars == <<sc, listener, conn, client, srv>>

Protocols == {"tlcp", "tls"}
Firsts == Protocols \cup {"plain", "other"}

(* pc is the goroutine that serves the connection; mu is held from the     *)
(* start of ensure to its end; rd is the read deadline of the socket.      *)
Fresh == [pc |-> "none", mask |-> {}, timeout |-> FALSE, mu |-> FALSE, done |-> FALSE, sec |-> "nil", nerr |-> "nil",
          raw |-> "none", rd |-> "none", served |-> 0]

Init ==
  /\ sc \in Scenarios
  /\ listener = [mask |-> Protocols, timeout |-> TRUE, open |-> TRUE]
  /\ conn = [c \in Conns |-> Fresh]
  /\ client = sc.clients
  /\ srv = "no"

----------------------------------------------------------------------------
(* The listener.                                                           *)

SetProtocolMask(mask) ==
  /\ listener.mask = Protocols /\ mask \in sc.masks
  /\ listener' = [listener EXCEPT !.mask = mask]
  /\ UNCHANGED <<sc, conn, client, srv>>

SetHandshakeTimeout ==
  /\ sc.noTimeout /\ listener.timeout
  /\ listener' = [listener EXCEPT !.timeout = FALSE]
  /\ UNCHANGED <<sc, conn, client, srv>>

Accepted(c) == [Fresh EXCEPT !.pc = "start", !.mask = listener.mask, !.timeout = listener.timeout, !.raw = "open"]

(* No I/O on the accept goroutine; net/http starts a goroutine for the     *)
(* connection, unless its mutex is held by Close.                          *)
Accept(c) ==
  /\ listener.open /\ srv = "no"
  /\ conn[c].pc = "none" /\ \A d \in Conns : conn[d].pc # "blocking"
  /\ conn' = [conn EXCEPT ![c] = Accepted(c)]
  /\ UNCHANGED <<sc, listener, client, srv>>

----------------------------------------------------------------------------
(* The connection: what its goroutine does.                                *)

(* net/http sets the deadline of the request and reads.  ensure: the       *)
(* mutex, the deadline of the handshake, then the first bytes.             *)
WithReadDeadline(n) == [n EXCEPT !.rd = IF sc.readTimeout THEN "request" ELSE "none"]
Ensure(n) == [n EXCEPT !.pc = "sniff", !.mu = TRUE, !.done = TRUE, !.rd = IF n.timeout THEN "handshake" ELSE @]
FirstRead(c) ==
  /\ conn[c].pc = "start" /\ conn[c].raw = "open"
  /\ conn' = [conn EXCEPT ![c] = IF sc.mode = "hybrid" THEN Ensure(WithReadDeadline(@)) ELSE [WithReadDeadline(@) EXCEPT !.pc = "handshake"]]
  /\ UNCHANGED <<sc, listener, client, srv>>

Failed(n, e) == [n EXCEPT !.pc = "done", !.mu = FALSE, !.nerr = e, !.raw = "closed"]

(* The mask of the listener instead of the one the connection was accepted with. *)
DetectLive(n, first, mask) ==
  IF first = "plain" THEN Failed(n, "not a handshake")
  ELSE IF first = "other" THEN Failed(n, "unknown protocol")
  ELSE IF first \notin listener.mask THEN Failed(n, "not allowed")
  ELSE [n EXCEPT !.pc = "handshake", !.sec = "nil"]
Detect(n, first, mask) ==
  IF first = "plain" THEN Failed(n, "not a handshake")
  ELSE IF first = "other" THEN Failed(n, "unknown protocol")
  ELSE IF first \notin mask THEN Failed(n, "not allowed")
  ELSE [n EXCEPT !.pc = "handshake", !.sec = "nil"]

Sniff(c) ==
  /\ conn[c].pc = "sniff" /\ conn[c].raw = "open" /\ client[c].sends \in Firsts
  /\ conn' = [conn EXCEPT ![c] = Detect(@, client[c].sends, @.mask)]
  /\ UNCHANGED <<sc, listener, client, srv>>

(* The handshake succeeds: the deadline is cleared, the mutex released,    *)
(* and the Read goes on.  tlcp.Listener has neither.                       *)
Negotiated(n, p) == [n EXCEPT !.pc = "reading", !.mu = FALSE, !.sec = p, !.rd = IF n.timeout /\ sc.mode = "hybrid" THEN "none" ELSE @]

HandshakeSucceeds(c) ==
  /\ conn[c].pc = "handshake" /\ conn[c].raw = "open"
  /\ client[c].sends \in (IF sc.mode = "hybrid" THEN Protocols ELSE {"tlcp"}) /\ client[c].steps > 0
  /\ conn' = [conn EXCEPT ![c] = Negotiated(@, client[c].sends)]
  /\ client' = [client EXCEPT ![c].steps = @ - 1]
  /\ UNCHANGED <<sc, listener, srv>>

HandshakeFails(c) ==
  /\ conn[c].pc = "handshake" /\ conn[c].raw = "open" /\ client[c].sends # "silent" /\ client[c].fails
  /\ conn' = [conn EXCEPT ![c] = Failed(@, "handshake")]
  /\ UNCHANGED <<sc, listener, client, srv>>

(* A request arrives, is handled, and net/http waits for the next one.     *)
Request(c) ==
  /\ conn[c].pc = "reading" /\ conn[c].raw = "open" /\ client[c].steps > 0
  /\ conn' = [conn EXCEPT ![c] = [WithReadDeadline(@) EXCEPT !.served = @ + 1]]
  /\ client' = [client EXCEPT ![c].steps = @ - 1]
  /\ UNCHANGED <<sc, listener, srv>>

(* A blocked read whose deadline passes, or whose socket is closed, fails. *)
Waiting(c) == conn[c].pc \in {"sniff", "handshake", "reading"}
ReadFails(c) ==
  /\ Waiting(c) /\ (conn[c].rd # "none" \/ conn[c].raw = "closed")
  /\ conn' = [conn EXCEPT ![c] = Failed(@, IF conn[c].pc = "reading" THEN @.nerr ELSE "timeout")]
  /\ UNCHANGED <<sc, listener, client, srv>>

(* The client closes its side, at any time.                                *)
ClientCloses(c) ==
  /\ Waiting(c) /\ client[c].closes
  /\ conn' = [conn EXCEPT ![c] = Failed(@, "EOF")]
  /\ UNCHANGED <<sc, listener, client, srv>>

----------------------------------------------------------------------------
(* http.Server.Close: hybridConn.Close takes the mutex of the connection.  *)

CloseServer ==
  /\ srv = "no" /\ sc.close
  /\ srv' = "closing" /\ listener' = [listener EXCEPT !.open = FALSE]
  /\ UNCHANGED <<sc, conn, client>>

Closable(c) == ~conn[c].mu
CloseConn(c) ==
  /\ srv = "closing" /\ conn[c].raw = "open" /\ Closable(c)
  /\ conn' = [conn EXCEPT ![c].raw = "closed", ![c].pc = IF @ = "start" THEN "done" ELSE @]
  /\ UNCHANGED <<sc, listener, client, srv>>

ServerClosed ==
  /\ srv = "closing" /\ \A c \in Conns : conn[c].raw # "open"
  /\ srv' = "closed"
  /\ UNCHANGED <<sc, listener, conn, client>>

Serves(c) == Accept(c) \/ FirstRead(c) \/ Sniff(c) \/ HandshakeSucceeds(c) \/ ReadFails(c) \/ CloseConn(c)
Progress == (\E c \in Conns : Serves(c)) \/ ServerClosed
Next ==
  \/ Progress \/ SetHandshakeTimeout \/ CloseServer
  \/ \E mask \in SUBSET Protocols : SetProtocolMask(mask)
  \/ \E c \in Conns : HandshakeFails(c) \/ Request(c) \/ ClientCloses(c)

Spec == Init /\ [][Next]_vars
(* Goroutines run and deadlines pass.                                      *)
FairSpec == Spec /\ WF_vars(Progress)

----------------------------------------------------------------------------
(* Properties.                                                             *)

(* The negotiation runs once: a connection with an error has no secure     *)
(* connection, one that is used has the protocol its client speaks, and    *)
(* the mutex is held exactly while ensure runs.                            *)
TypeOK ==
  \A c \in Conns :
    /\ conn[c].sec # "nil" => conn[c].sec = client[c].sends
    /\ conn[c].mu <=> (conn[c].pc = "sniff" \/ (conn[c].pc = "handshake" /\ sc.mode = "hybrid"))
    /\ conn[c].served > 0 => conn[c].sec # "nil"

(* SetProtocolMask "only affects connections accepted afterwards": what a  *)
(* connection may speak is what was allowed when it was accepted.          *)
MaskOfAccept ==
  \A c \in Conns :
    /\ sc.mode = "hybrid" /\ conn[c].sec # "nil" => conn[c].sec \in conn[c].mask
    /\ conn[c].nerr = "not allowed" => client[c].sends \notin conn[c].mask

(* No error path of the negotiation leaves its socket open: a connection   *)
(* whose goroutine is gone is closed.                                      *)
FailedIsClosed == \A c \in Conns : conn[c].pc = "done" => conn[c].raw = "closed"

(* "Callers set their own deadlines / http.Server timeouts" and "preventing *)
(* Slowloris-style resource exhaustion": a goroutine that waits for a       *)
(* request has the deadline of the server.                                  *)
ReadsAreBounded ==
  \A c \in Conns : sc.readTimeout /\ conn[c].pc = "reading" /\ conn[c].raw = "open" => conn[c].rd # "none"

(* A client that connects and stalls does not hold up the others: every    *)
(* connection is accepted, whatever the clients before it do, unless the   *)
(* server is closed.                                                       *)
AllAccepted == \A c \in Conns : conn[c].pc # "none" \/ srv # "no"

(* Close of the server returns, although it waits for the mutex of every   *)
(* connection that is negotiating: the deadline of the handshake ends that.*)
NotClosing == srv # "closing"

(* A connection whose client has gone silent during the negotiation ends.  *)
NobodyNegotiates == \A c \in Conns : conn[c].pc \notin {"sniff", "handshake"}

(* A connection is negotiated once, as its listener allowed, or closed     *)
(* (hybridConn.ensure).                                                    *)
NegotiationSound ==
  /\ TypeOK
  /\ MaskOfAccept
  /\ FailedIsClosed
=============================================================================
