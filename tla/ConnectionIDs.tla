--------------------------- MODULE ConnectionIDs ---------------------------
(***************************************************************************)
(* The connection IDs one endpoint issues (connIDGenerator) and its peer   *)
(* uses (connIDManager), linked by NEW_CONNECTION_ID and                   *)
(* RETIRE_CONNECTION_ID frames. Packets are lost, reordered and            *)
(* retransmitted: a frame, once sent, is delivered at any later time and   *)
(* any number of times. A connection ID is named by its sequence number;   *)
(* its stateless reset token goes with it. The queue of unused IDs is      *)
(* sorted and free of duplicates, so it is a set here, its front the       *)
(* minimum.                                                                *)
(***************************************************************************)
EXTENDS Integers, FiniteSets, FiniteSetsExt

CONSTANTS Paths,                   \* path IDs the user allocates IDs for
          Transports,              \* the issuer's transports (connRunners)
          Home,                    \* the one the connection starts on
          MaxActiveConnectionIDs,  \* IDs the user stores, announced to the issuer
          MaxIssuedConnectionIDs,  \* IDs the issuer is willing to have active
          Scenarios

None == -1          \* no ID allocated for a path
InitialDest == -2   \* the Destination Connection ID the client chose

VARIABLES sc,       \* the scenario: [copies, raising, server, maxSeq], the last a bound on the IDs issued
          g,        \* connIDGenerator
          routes,   \* issuer's transports: IDs routed to the connection
          u,        \* connIDManager
          tokens,   \* reset tokens the user's transport watches for
          news,     \* NEW_CONNECTION_ID frames sent
          got,      \* sequence numbers of those delivered already
          retires,  \* sequence numbers in RETIRE_CONNECTION_ID frames queued
          packets,  \* RETIRE frames sent, with the ID the packet was sent to
          err       \* the transport error an endpoint closed with

vars == <<sc, g, routes, u, tokens, news, got, retires, packets, err>>

Errors == {"none", "limit", "retired_unissued", "retired_in_use"}

newConnIDGenerator ==
    [highestSeq |-> 0, active |-> {0}, toRetire |-> {}, prior |-> 0,
     initial |-> sc.server, runners |-> {Home}, limit |-> FALSE, closed |-> FALSE]

newConnIDManager ==
    [active |-> 0, queue |-> {}, probing |-> [p \in Paths |-> None],
     highestProbing |-> 0, highestRetired |-> 0, complete |-> FALSE, closed |-> FALSE]

Init ==
    /\ sc \in Scenarios
    /\ g = newConnIDGenerator
    /\ routes = [t \in Transports |->
                   IF t = Home THEN {0} \union (IF sc.server THEN {InitialDest} ELSE {})
                               ELSE {}]
    /\ u = newConnIDManager
    /\ tokens \in {{}, {0}}   \* only a server gives a token for its first ID
    /\ (tokens = {0}) = sc.server
    /\ news = {} /\ got = {} /\ retires = {} /\ packets = {}
    /\ err = "none"

-----------------------------------------------------------------------------
(* The issuer *)

NewConnectionIDFrame(seq, prior) == [seq |-> seq, prior |-> prior]

Routed(rts, runners, ids) ==
    [t \in Transports |-> IF t \in runners THEN rts[t] \union ids ELSE rts[t]]

Unrouted(rts, runners, ids) ==
    [t \in Transports |-> IF t \in runners THEN rts[t] \ ids ELSE rts[t]]

(* issueNewConnID for the sequence numbers seqs *)
issueNewConnIDs(gen, seqs) ==
    /\ g' = [gen EXCEPT !.highestSeq = IF seqs = {} THEN @ ELSE Max(seqs),
                        !.active = @ \union seqs]
    /\ routes' = Routed(routes, gen.runners, seqs)
    /\ news' = news \union {NewConnectionIDFrame(s, gen.prior) : s \in seqs}

(* The peer's transport parameters have arrived. *)
SetMaxActiveConnIDs ==
    /\ ~g.limit /\ ~g.closed
    /\ LET more == Min({MaxActiveConnectionIDs, MaxIssuedConnectionIDs})
                     - Cardinality(g.active)
       IN issueNewConnIDs([g EXCEPT !.limit = TRUE],
                          (g.highestSeq + 1)..(g.highestSeq + more))
    /\ UNCHANGED <<sc, u, tokens, got, retires, packets, err>>

queueConnIDForRetiring(gen, id) == [gen EXCEPT !.toRetire = @ \union {id}]

RetireError(seq, dest) ==
    IF seq > g.highestSeq THEN "retired_unissued"
    ELSE IF seq \in g.active /\ seq = dest THEN "retired_in_use" ELSE err

RetireOf(seq, dest) ==
    /\ err' = RetireError(seq, dest)
    /\ \/ /\ seq \notin g.active \/ seq = dest
          /\ UNCHANGED <<g, routes, news>>
       \/ /\ seq \in g.active /\ seq # dest
          /\ g.highestSeq < sc.maxSeq
          /\ issueNewConnIDs([queueConnIDForRetiring(g, seq) EXCEPT !.active = @ \ {seq}],
                             IF seq = 0 THEN {} ELSE {g.highestSeq + 1})

(* A RETIRE_CONNECTION_ID frame arrives. *)
Retire ==
    /\ ~g.closed
    /\ \E p \in packets : RetireOf(p.seq, p.dest)
    /\ UNCHANGED <<sc, u, tokens, got, retires, packets>>

(* An issuer other than this program may ask for IDs to be retired: this   *)
(* one always sends Retire Prior To as 0.                                  *)
PeerRetiresPrior ==
    /\ sc.raising /\ g.limit /\ ~g.closed
    /\ g.highestSeq < sc.maxSeq
    /\ issueNewConnIDs([g EXCEPT !.prior = g.highestSeq], {g.highestSeq + 1})
    /\ UNCHANGED <<sc, u, tokens, got, retires, packets, err>>

GeneratorSetHandshakeComplete ==
    /\ ~g.closed /\ g.initial
    /\ g' = [queueConnIDForRetiring(g, InitialDest) EXCEPT !.initial = FALSE]
    /\ UNCHANGED <<sc, routes, u, tokens, news, got, retires, packets, err>>

(* Retired IDs expire in the order of their expiry times; RTT estimates    *)
(* change, so that order is any order.                                     *)
RemoveRetiredConnIDs ==
    /\ ~g.closed
    /\ \E id \in g.toRetire :
          /\ g' = [g EXCEPT !.toRetire = @ \ {id}]
          /\ routes' = Unrouted(routes, g.runners, {id})
    /\ UNCHANGED <<sc, u, tokens, news, got, retires, packets, err>>

GeneratorIDs(gen) ==
    gen.active \union gen.toRetire \union (IF gen.initial THEN {InitialDest} ELSE {})

(* The connection is gone: its IDs are forgotten (RemoveAll), or answered  *)
(* by a stand-in for a while (ReplaceWithClosed). Either way the live      *)
(* connection loses every route.                                           *)
RoutesLost ==
    /\ ~g.closed
    /\ g' = [g EXCEPT !.closed = TRUE]
    /\ routes' = Unrouted(routes, g.runners, GeneratorIDs(g))
    /\ UNCHANGED <<sc, u, tokens, news, got, retires, packets, err>>

RemoveAll == RoutesLost

ReplaceWithClosed == RoutesLost


(* The connection probes a path through another transport. *)
AddConnRunner ==
    /\ ~g.closed
    /\ \E t \in Transports \ g.runners :
          /\ g' = [g EXCEPT !.runners = @ \union {t}]
          /\ routes' = Routed(routes, {t}, GeneratorIDs(g) \ g.toRetire)
    /\ UNCHANGED <<sc, u, tokens, news, got, retires, packets, err>>

-----------------------------------------------------------------------------
(* The user *)

Probing(m) == {m.probing[p] : p \in Paths} \ {None}

(* A frame is stale if its ID is below the ones in use or already retired. *)
Stale(m, f) ==
    \/ f.seq < Max({m.active, m.highestProbing})
    \/ f.seq < m.highestRetired

(* Taking IDs prior to f.prior out of the paths and the queue *)
RetiredPaths(m, f) == {p \in Paths : m.probing[p] \in 0..(f.prior - 1)}

RetiredQueue(m, f) ==
    IF f.prior > m.highestRetired THEN {s \in m.queue : s < f.prior} ELSE {}

PriorRetired(m, f) ==
    [m EXCEPT !.probing = [p \in Paths |-> IF p \in RetiredPaths(m, f) THEN None ELSE @[p]],
              !.queue = @ \ RetiredQueue(m, f),
              !.highestRetired = Max({@, f.prior})]

addConnectionID(m, f) ==
    IF f.seq = m.active THEN m ELSE [m EXCEPT !.queue = @ \union {f.seq}]

updateConnectionID(m) ==
    [m EXCEPT !.highestRetired = Max({@, m.active}),
              !.active = Min(m.queue),
              !.queue = @ \ {Min(m.queue)}]

(* addConnectionID, then the update of the active ID if it must go *)
Added(m, f) ==
    IF f.seq # m.active /\ m.active < f.prior
    THEN updateConnectionID(addConnectionID(m, f))
    ELSE addConnectionID(m, f)

(* The user moves to m, having queued RETIRE frames for gone. *)
Becomes(m, gone) ==
    /\ u' = m
    /\ retires' = retires \union gone
    /\ tokens' = (tokens \ gone)
                 \union (IF m.active # u.active THEN {m.active} ELSE {})
                 \union (Probing(m) \ Probing(u))
    /\ err' = IF Cardinality(m.queue) >= MaxActiveConnectionIDs THEN "limit" ELSE err

AddOf(f) ==
    \/ /\ Stale(u, f)
       /\ retires' = retires \union {f.seq}
       /\ UNCHANGED <<u, tokens, err>>
    \/ /\ ~Stale(u, f)
       /\ LET m == Added(PriorRetired(u, f), f)
          IN Becomes(m, {u.probing[p] : p \in RetiredPaths(u, f)}
                          \union RetiredQueue(u, f)
                          \union ({u.active} \ {m.active}))

(* A NEW_CONNECTION_ID frame arrives, in any order and possibly again.     *)
(* sc.copies says which copies: all of them, or all but those of an ID in  *)
(* use and of the one most recently given to a path.                       *)
Add ==
    /\ ~u.closed
    /\ \E f \in news :
          /\ f.seq \in got /\ sc.copies = "some" =>
                f.seq \notin {u.active, u.highestProbing} \union Probing(u)
          /\ got' = got \union {f.seq}
          /\ AddOf(f)
    /\ UNCHANGED <<sc, g, routes, news, packets>>

shouldUpdateConnID(m, manyPackets) ==
    /\ m.complete
    /\ \/ m.queue # {} /\ m.active = 0
       \/ 2 * Cardinality(m.queue) >= MaxActiveConnectionIDs /\ manyPackets

(* A packet is sent: it goes to the active ID, changed first if it is      *)
(* time, and carries the queued RETIRE frames.                             *)
Get ==
    /\ ~u.closed
    /\ \E many \in BOOLEAN, lost \in SUBSET retires :
          LET m == IF shouldUpdateConnID(u, many) THEN updateConnectionID(u) ELSE u
          IN /\ Becomes(m, {u.active} \ {m.active})
             /\ packets' = packets \union {[seq |-> s, dest |-> m.active] : s \in lost}
    /\ UNCHANGED <<sc, g, routes, news, got>>

ManagerSetHandshakeComplete ==
    /\ ~u.closed /\ ~u.complete
    /\ u' = [u EXCEPT !.complete = TRUE]
    /\ UNCHANGED <<sc, g, routes, tokens, news, got, retires, packets, err>>

(* An ID for a new path: the front of the queue. *)
GetConnIDForPath ==
    /\ ~u.closed /\ u.queue # {}
    /\ \E p \in Paths :
          /\ u.probing[p] = None
          /\ Becomes([u EXCEPT !.probing[p] = Min(u.queue),
                               !.queue = @ \ {Min(u.queue)},
                               !.highestProbing = Min(u.queue)], {})
    /\ UNCHANGED <<sc, g, routes, news, got, packets>>

RetireConnIDForPath ==
    /\ ~u.closed
    /\ \E p \in Paths :
          /\ u.probing[p] # None
          /\ Becomes([u EXCEPT !.probing[p] = None], {u.probing[p]})
    /\ UNCHANGED <<sc, g, routes, news, got, packets>>

ManagerClose ==
    /\ ~u.closed
    /\ u' = [u EXCEPT !.closed = TRUE, !.probing = [p \in Paths |-> None]]
    /\ tokens' = tokens \ ({u.active} \union Probing(u))
    /\ UNCHANGED <<sc, g, routes, news, got, retires, packets, err>>

Next ==
    /\ err = "none"
    /\ \/ SetMaxActiveConnIDs \/ Retire \/ PeerRetiresPrior
       \/ GeneratorSetHandshakeComplete \/ RemoveRetiredConnIDs
       \/ RemoveAll \/ ReplaceWithClosed \/ AddConnRunner
       \/ Add \/ Get \/ ManagerSetHandshakeComplete
       \/ GetConnIDForPath \/ RetireConnIDForPath \/ ManagerClose

Spec == Init /\ [][Next]_vars

-----------------------------------------------------------------------------
(* The state has its types, and the IDs the issuer holds active are never  *)
(* more than it was allowed: the first ID is not replaced when retired.    *)
TypeOK ==
    /\ err \in Errors
    /\ g.active \subseteq 0..g.highestSeq
    /\ g.runners \subseteq Transports
    /\ ~sc.raising => Cardinality(g.active) <= MaxActiveConnectionIDs
    /\ u.queue \subseteq got /\ Probing(u) \subseteq got
    /\ tokens \subseteq 0..sc.maxSeq

(* GetConnIDForPath: "Once a connection ID is allocated for a path, it     *)
(* cannot be used for a different path": an ID in use for a path is        *)
(* neither the active ID, nor another path's, nor waiting in the queue.    *)
OnePathPerID ==
    /\ u.active \notin Probing(u) \union u.queue
    /\ Probing(u) \intersect u.queue = {}
    /\ \A p, q \in Paths : p # q /\ u.probing[p] # None => u.probing[p] # u.probing[q]

(* An ID for which the user has queued RETIRE_CONNECTION_ID is never used  *)
(* again: not on the active path, not for probing, not from the queue.     *)
RetiredNotUsed ==
    ~u.closed => retires \intersect ({u.active} \union Probing(u) \union u.queue) = {}

(* Two endpoints running this code never accuse each other: whatever is    *)
(* lost, reordered or sent again, the issuer stays within the limit the    *)
(* user enforces in Add, and Retire accepts what the user retires.         *)
HonestPeersAgree == err = "none"

(* The transport watches for the reset tokens of exactly the IDs in use,   *)
(* and for none of them once the manager is closed.                        *)
TokensExact ==
    tokens = IF u.closed THEN {}
             ELSE Probing(u) \union (IF u.active = 0 /\ ~sc.server THEN {} ELSE {u.active})

(* Every ID the peer may use reaches the connection, through every         *)
(* transport it has a path on: the IDs in use and, on the first transport, *)
(* the retired ones until they expire.                                     *)
UsedIDsRouted ==
    ~g.closed =>
        /\ \A t \in g.runners : {u.active} \union Probing(u) \subseteq routes[t]
        /\ g.toRetire \subseteq routes[Home]

(* A closed connection leaves nothing in any transport's handler map.      *)
NoRouteLeft == g.closed => \A t \in Transports : routes[t] = {}

=============================================================================
