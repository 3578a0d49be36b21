------------------------------- MODULE Paths -------------------------------
(***************************************************************************)
(* Connection migration. The client adds paths, probes them, switches to   *)
(* one and closes others (pathManagerOutgoing, with one Probe call per     *)
(* path running beside the connection's loop); the server validates the    *)
(* addresses packets come from and follows the client (pathManager).       *)
(* Packets are lost and reordered; a packet is processed at most once. A   *)
(* path is named by the client's address on it, 0 being the handshake's;   *)
(* the data of a PATH_CHALLENGE is random, so it is a fresh number here.   *)
(* How much time passes between packets is left open.                      *)
(***************************************************************************)
EXTENDS Integers, Sequences, SequencesExt, FiniteSets, FiniteSetsExt

CONSTANTS NewPaths,   \* the paths the client adds: their addresses
          IDs,        \* connection IDs an endpoint has for paths other than the active one
          Scenarios

None == -1

VARIABLES sc,      \* the scenario: [paths, maxPaths, reprobe, closing, timer, packets],
                   \* the last a bound on the packets the client sends
          out,     \* pathManagerOutgoing.paths
          toProbe, \* pathsToProbe
          active,  \* activePath
          switch,  \* pathToSwitchTo
          using,   \* the path the connection sends on
          probe,   \* Probe calls
          cheld,   \* paths the client holds a connection ID for
          owed,    \* PATH_RESPONSEs the client has queued
          pn,      \* next packet number of the client
          up,      \* client packets in flight
          srv,     \* the server's connection and pathManager
          sn,      \* next PATH_CHALLENGE of the server
          down,    \* server probe packets in flight
          latest,  \* the highest-numbered non-probing packet the server received
          seen     \* the server's challenges that reached the client: <<address, data>>

client == <<out, toProbe, active, switch, using, probe, cheld, owed>>
vars == <<sc, client, pn, up, srv, sn, down, latest, seen>>

NoPath == [exists |-> FALSE, isValidated |-> FALSE, challenges |-> {}, validated |-> FALSE]

(* A PATH_CHALLENGE or PATH_RESPONSE that a packet does not carry is None. *)
ClientPacket(from, challenge, response, data) ==
    [pn |-> pn, from |-> from, challenge |-> challenge, response |-> response, data |-> data]

Init ==
    /\ sc \in Scenarios
    /\ out = [p \in NewPaths |-> NoPath]
    /\ toProbe = <<>> /\ active = 0 /\ switch = None /\ using = 0
    /\ probe = [p \in NewPaths |-> "idle"]
    /\ cheld = {} /\ owed = {}
    /\ pn = 1 /\ up = {}
    /\ srv = [remote |-> 0, paths |-> <<>>, nextPathID |-> 0, held |-> {},
              largest |-> 0, created |-> FALSE, error |-> FALSE]
    /\ sn = 1 /\ down = {}
    /\ latest = [pn |-> 0, from |-> 0]
    /\ seen = {}

-----------------------------------------------------------------------------
(* The client *)

(* addPath: a path that is probed again gets a new channel to wait on. *)
addPath(p) ==
    [out EXCEPT ![p] = IF @.exists THEN [@ EXCEPT !.validated = FALSE]
                       ELSE [NoPath EXCEPT !.exists = TRUE]]

enqueueProbe(p) == toProbe' = Append(toProbe, p)

(* Probe is called. After Close the path cannot be probed any more. *)
Probe(p) ==
    /\ probe[p] = "idle" \/ (probe[p] = "validated" /\ sc.reprobe)
    /\ probe' = [probe EXCEPT ![p] = "waiting"]
    /\ out' = addPath(p)
    /\ enqueueProbe(p)
    /\ UNCHANGED <<sc, active, switch, using, cheld, owed, pn, up, srv, sn, down, latest, seen>>

(* Probe's timer fires: another PATH_CHALLENGE is due. *)
ProbeTimer(p) ==
    /\ sc.timer
    /\ probe[p] = "waiting" /\ ~Contains(toProbe, p)
    /\ enqueueProbe(p)
    /\ UNCHANGED <<sc, out, active, switch, using, probe, cheld, owed,
                   pn, up, srv, sn, down, latest, seen>>

ProbeReturns(p) ==
    /\ probe[p] = "waiting" /\ out[p].validated
    /\ probe' = [probe EXCEPT ![p] = "validated"]
    /\ UNCHANGED <<sc, out, toProbe, active, switch, using, cheld, owed,
                   pn, up, srv, sn, down, latest, seen>>

switchToPath(p) ==
    /\ out[p].exists /\ out[p].isValidated
    /\ switch' = p
    /\ active' = p
    /\ UNCHANGED <<sc, out, toProbe, using, probe, cheld, owed, pn, up, srv, sn, down, latest, seen>>


removePath(p) ==
    /\ sc.closing
    /\ p # active /\ probe[p] # "closed"
    /\ cheld' = IF out[p].exists THEN cheld \ {p} ELSE cheld
    /\ out' = [out EXCEPT ![p] = NoPath]
    /\ probe' = [probe EXCEPT ![p] = "closed"]
    /\ UNCHANGED <<sc, toProbe, active, switch, using, owed, pn, up, srv, sn, down, latest, seen>>

(* ShouldSwitchPath and switchToNewPath, in the connection's loop *)
switchToNewPath ==
    /\ switch # None
    /\ using' = switch /\ switch' = None
    /\ UNCHANGED <<sc, out, toProbe, active, probe, cheld, owed, pn, up, srv, sn, down, latest, seen>>

(* The queue without the paths at its front that have been abandoned *)
Probeable(q) ==
    LET live == {i \in DOMAIN q : out[q[i]].exists}
    IN IF live = {} THEN <<>> ELSE SubSeq(q, Min(live), Len(q))

(* The next PATH_CHALLENGE leaves, if there is a connection ID for it. *)
NextPathToProbe ==
    /\ toProbe # <<>> /\ pn <= sc.packets
    /\ LET q == Probeable(toProbe)
           p == Head(q)
       IN IF q = <<>> \/ (p \notin cheld /\ Cardinality(cheld) >= IDs)
          THEN /\ q # toProbe
               /\ toProbe' = q
               /\ UNCHANGED <<out, cheld, pn, up>>
          ELSE /\ cheld' = cheld \union {p}
               /\ out' = [out EXCEPT ![p].challenges = @ \union {pn}]
               /\ toProbe' = Tail(q)
               /\ up' = up \union {ClientPacket(p, pn, None, FALSE)}
               /\ pn' = pn + 1
    /\ UNCHANGED <<sc, active, switch, using, probe, owed, srv, sn, down, latest, seen>>

(* A packet on the current path, with data or only with a PATH_RESPONSE    *)
(* the client owes: it is sent on the current path, whatever path the      *)
(* challenge came on.                                                      *)
SendPacket ==
    /\ pn <= sc.packets
    /\ \E r \in owed \union {None}, data \in BOOLEAN :
          /\ data \/ r # None
          /\ up' = up \union {ClientPacket(using, None, r, data)}
          /\ owed' = owed \ {r}
    /\ pn' = pn + 1
    /\ UNCHANGED <<sc, out, toProbe, active, switch, using, probe, cheld, srv, sn, down, latest, seen>>

(* HandlePathResponseFrame of the client *)
ResponseHandled(o, r) ==
    [p \in NewPaths |->
        IF r \in o[p].challenges /\ ~o[p].isValidated
        THEN [o[p] EXCEPT !.isValidated = TRUE, !.challenges = {}, !.validated = TRUE]
        ELSE o[p]]

ClientReceives ==
    /\ \E d \in down :
          /\ out' = ResponseHandled(out, d.response)
          /\ owed' = owed \union ({d.challenge} \ {None})
          /\ seen' = seen \union ({<<d.to, d.challenge>>} \ {<<d.to, None>>})
          /\ down' = down \ {d}
    /\ UNCHANGED <<sc, toProbe, active, switch, using, probe, cheld, pn, up, srv, sn, latest>>

-----------------------------------------------------------------------------
(* The server *)

ServerPath(id, k, data) ==
    [id |-> id, addr |-> k.from, challenges |-> {}, validated |-> FALSE, rcvdNonProbing |-> data]

(* HandlePathResponseFrame of the server *)
Validated(paths, r) ==
    [i \in DOMAIN paths |->
        IF r \in paths[i].challenges
        THEN [paths[i] EXCEPT !.validated = TRUE, !.challenges = {}] ELSE paths[i]]

IndexOf(paths, addr) == {i \in DOMAIN paths : paths[i].addr = addr}

(* The path of a known address: it moves to the end of the list. *)
Touched(paths, i, data) ==
    Append(RemoveAt(paths, i),
           [paths[i] EXCEPT !.rcvdNonProbing = @ \/ data])

(* SwitchToPath: the IDs of all the paths but this one are retired. *)
Switched(s, addr) ==
    [s EXCEPT !.remote = addr, !.paths = <<>>,
              !.held = @ \ {s.paths[i].id : i \in {j \in DOMAIN s.paths : s.paths[j].addr # addr}}]


shouldSwitch(path, k, s) ==
    /\ path.validated /\ path.rcvdNonProbing
    /\ k.pn = s.largest

(* The path at the end of the list is sent a probe packet: a challenge of  *)
(* its own if it is not validated and the backoff has passed (due), and    *)
(* the answer to the client's. A probe needs a connection ID.              *)
Answered(s, k, due) ==
    LET path == Last(s.paths)
        ask == ~path.validated /\ due
        can == path.id \in s.held \/ Cardinality(s.held) < IDs
        send == can /\ (ask \/ k.challenge # None)
        done == [s EXCEPT !.held = IF send THEN @ \union {path.id} ELSE @,
                          !.paths[Len(s.paths)].challenges =
                              IF send /\ ask THEN @ \union {sn} ELSE @]
    IN /\ down' = IF send
                  THEN down \union {[to |-> k.from, response |-> k.challenge,
                                     challenge |-> IF ask THEN sn ELSE None]}
                  ELSE down
       /\ sn' = IF send /\ ask THEN sn + 1 ELSE sn
       /\ srv' = IF shouldSwitch(path, k, s) THEN Switched(done, k.from) ELSE done

(* HandlePacket for an address seen for the first time: when the list is   *)
(* full the oldest path is evicted, if it has been idle for pathTimeout.   *)
NewAddress(s, k, due, idle) ==
    LET full == Len(s.paths) >= sc.maxPaths
        kept == IF full THEN [s EXCEPT !.paths = Tail(@), !.held = @ \ {Head(s.paths).id}] ELSE s
    IN IF full /\ ~idle
       THEN srv' = s /\ UNCHANGED <<sn, down>>
       ELSE IF Cardinality(kept.held) >= IDs
            THEN srv' = kept /\ UNCHANGED <<sn, down>>
            ELSE Answered([kept EXCEPT !.paths = Append(@, ServerPath(kept.nextPathID, k, k.data)),
                                       !.nextPathID = @ + 1], k, TRUE)

HandlePacket(s, k, due, idle) ==
    \/ /\ k.from = s.remote
       /\ srv' = s
       /\ UNCHANGED <<sn, down>>
    \/ /\ k.from # s.remote /\ IndexOf(s.paths, k.from) = {}
       /\ NewAddress([s EXCEPT !.created = TRUE], k, due, idle)
    \/ \E i \in IndexOf(s.paths, k.from) :
          /\ k.from # s.remote
          /\ Answered([s EXCEPT !.paths = Touched(@, i, k.data)], k, due)

(* The frames of the packet are handled, then its source address. A        *)
(* PATH_RESPONSE before any path was challenged is a protocol violation.   *)
Received(k) ==
    [srv EXCEPT !.paths = Validated(@, k.response),
                !.largest = Max({@, k.pn}),
                !.error = @ \/ (k.response # None /\ ~srv.created)]

ServerReceives ==
    /\ \E k \in up, due, idle \in BOOLEAN :
          /\ HandlePacket(Received(k), k, due, idle)
          /\ up' = up \ {k}
          /\ latest' = IF k.data /\ k.pn > latest.pn THEN [pn |-> k.pn, from |-> k.from] ELSE latest
    /\ UNCHANGED <<sc, client, pn, seen>>

Next ==
    \/ \E p \in sc.paths : \/ Probe(p) \/ ProbeTimer(p) \/ ProbeReturns(p)
                           \/ switchToPath(p) \/ removePath(p)
    \/ switchToNewPath \/ NextPathToProbe \/ SendPacket \/ ClientReceives
    \/ ServerReceives

Spec == Init /\ [][Next]_vars

-----------------------------------------------------------------------------
(* The state has its types; the server tracks each address once, and never *)
(* more than maxPaths.                                                     *)
TypeOK ==
    /\ using \in NewPaths \union {0} /\ active \in NewPaths \union {0}
    /\ Len(srv.paths) <= sc.maxPaths
    /\ \A i, j \in DOMAIN srv.paths : srv.paths[i].addr = srv.paths[j].addr => i = j
    /\ Cardinality(srv.held) <= IDs /\ Cardinality(cheld) <= IDs
    /\ ~srv.error

(* The server only moves to an address at which one of its challenges has  *)
(* reached the client.                                                     *)
MovesToReachablePath ==
    srv.remote # 0 => \E s \in seen : s[1] = srv.remote

(* connection.go: "We only switch paths in response to the highest-        *)
(* numbered non-probing packet": the server moves to the address that      *)
(* packet came from.                                                       *)
FollowsLatest == [][srv'.remote # srv.remote => srv'.remote = latest'.from]_vars

(* A Probe call whose PATH_CHALLENGE was answered returns: the channel it  *)
(* waits on is closed. Every challenge is forgotten when the path is       *)
(* validated, so a challenge that remains has not been answered.           *)
ProbeCompletes ==
    \A p \in NewPaths : probe[p] = "waiting" /\ out[p].isValidated => out[p].validated

(* The client sends on the path it last switched to, or is about to; that  *)
(* path is validated, and Close never removes it.                          *)
UsedPathIsOpen ==
    /\ using # active => switch = active
    /\ active # 0 => out[active].exists /\ out[active].isValidated

(* Every ID the client holds for a path is the ID of a path it still has:  *)
(* closing a path gives its ID back.                                       *)
ClientIDsReturned == \A p \in cheld : out[p].exists

(* SwitchToPath: "retire all other paths": after the switch, the server    *)
(* holds an ID for no path but those it tracks and the one it is on.       *)
OtherPathsRetired ==
    Cardinality(srv.held) <= Len(srv.paths) + 1

=============================================================================
