----------------------------- MODULE StreamsMap -----------------------------
(***************************************************************************)
(* The streams maps (streams_map.go, streams_map_outgoing.go and           *)
(* streams_map_incoming.go), for one of the four kinds of streams: the     *)
(* outgoing map of the endpoint that opens the streams, and the incoming   *)
(* map of its peer.  Frames between the two arrive in any order and more   *)
(* than once.  Stream ids are counted 1, 2, 3 (the code's 4k + kind).      *)
(*                                                                         *)
(* Goroutines wait in OpenStreamSync and AcceptStream outside the lock:    *)
(* between an unlock, the select and the next lock anything may happen.    *)
(* A client whose 0-RTT is rejected gets new maps: epoch 0 is the first    *)
(* pair of maps, epoch 1 the one after ResetFor0RTT.                       *)
(***************************************************************************)
EXTENDS Naturals, Sequences, SequencesExt, FiniteSets, FiniteSetsExt

CONSTANTS Openers,        \* goroutines that open streams
          Acceptors,      \* goroutines that accept streams
          Scenarios       \* records [opening, accepting, limit, last, reset]: the goroutines at work,
                          \* the limit on concurrent streams, the last stream opened, whether 0-RTT is rejected

VARIABLES sc,       \* the scenario
          out,      \* out[e]: the outgoing map of epoch e
          cur,      \* the epoch the streamsMap uses
          reset,    \* streamsMap.reset
          opener,   \* opener[g]: [pc, map, token, ctx, got]
          in,       \* the incoming map
          chan,     \* newStreamChan: whether a token is buffered
          parked,   \* acceptors parked in the select, the first one first
          acceptor, \* acceptor[g]: where it is
          accepted, \* the streams accepted, in order
          limits,   \* MAX_STREAMS frames sent by the acceptor
          blocked,  \* STREAMS_BLOCKED frames sent by the opener
          failed    \* the error the acceptor closes the connection with

vars == <<sc, out, cur, reset, opener, in, chan, parked, acceptor, accepted, limits, blocked, failed>>
outVars == <<out, cur, reset, opener, blocked>>
inVars == <<in, chan, parked, acceptor, accepted, limits, failed>>

newOutgoingStreamsMap ==
  [streams |-> {}, openQueue |-> <<>>, nextStream |-> 1, maxStream |-> 0, blockedSent |-> FALSE, closed |-> FALSE]
MaxNumStreams == sc.limit
LastStream == sc.last

newIncomingStreamsMap ==
  [streams |-> {}, shouldDelete |-> {}, deleted |-> {}, nextStreamToAccept |-> 1, nextStreamToOpen |-> 1,
   maxStream |-> MaxNumStreams, closed |-> FALSE]

Init ==
  /\ sc \in Scenarios
  /\ out = [e \in {0, 1} |-> newOutgoingStreamsMap]
  /\ cur = 0 /\ reset = FALSE
  /\ opener = [g \in Openers |-> [pc |-> "idle", map |-> 0, token |-> FALSE, ctx |-> FALSE, got |-> 0]]
  /\ in = newIncomingStreamsMap /\ chan = FALSE /\ parked = <<>>
  /\ acceptor = [g \in Acceptors |-> "idle"]
  /\ accepted = <<>>
  /\ limits = {} /\ blocked = {} /\ failed = "none"

-----------------------------------------------------------------------------
(* The outgoing map.  Each operator takes the map and the goroutines and   *)
(* gives [m, g, blocked].                                                  *)

State(m, g) == [m |-> m, g |-> g, blocked |-> {}]
openStream(st, g) ==
  [st EXCEPT !.m.streams = @ \cup {st.m.nextStream}, !.m.nextStream = @ + 1,
             !.g[g] = [@ EXCEPT !.pc = "opened", !.got = st.m.nextStream]]
maybeSendBlockedFrame(st) ==
  IF st.m.blockedSent THEN st
  ELSE [st EXCEPT !.blocked = @ \cup {st.m.maxStream}, !.m.blockedSent = TRUE]
maybeUnblockOpenSync(st) ==
  IF st.m.openQueue = <<>> \/ st.m.nextStream > st.m.maxStream THEN st
  ELSE [st EXCEPT !.g[Head(st.m.openQueue)].token = TRUE]

MayOpen(m) == m.openQueue = <<>> /\ m.nextStream <= m.maxStream

Keep(e, st) == /\ out' = [out EXCEPT ![e] = st.m] /\ opener' = st.g
               /\ blocked' = IF e = 0 /\ cur = 1 THEN blocked ELSE blocked \cup st.blocked

Fail(st, g) == [st EXCEPT !.g[g].pc = "failed"]
OpenStream(g) ==
  /\ opener[g].pc = "idle" /\ out[cur].nextStream <= LastStream
  /\ LET st == State(out[cur], opener)
     IN Keep(cur, IF reset \/ out[cur].closed THEN Fail(st, g)
                  ELSE IF ~MayOpen(out[cur]) THEN Fail(maybeSendBlockedFrame(st), g)
                  ELSE openStream(st, g))
  /\ UNCHANGED <<cur, reset>> /\ UNCHANGED inVars

(* OpenStreamSync: the map is fetched under the lock of the streamsMap,    *)
(* and used under its own.                                                 *)
CallOpenStreamSync(g) ==
  /\ opener[g].pc = "idle"
  /\ opener' = [opener EXCEPT ![g] = [@ EXCEPT !.pc = IF reset THEN "failed" ELSE "lock", !.map = cur]]
  /\ UNCHANGED <<out, cur, reset, blocked>> /\ UNCHANGED inVars

Enqueue(st, g) == [st EXCEPT !.m.openQueue = Append(@, g), !.g[g].pc = "select"]
(* The map may have been closed since it was fetched.                      *)
OpenStreamSync(g) ==
  /\ opener[g].pc = "lock"
  /\ LET e == opener[g].map
         st == State(out[e], opener)
     IN /\ out[e].nextStream <= LastStream
        /\ Keep(e, IF out[e].closed \/ opener[g].ctx THEN Fail(st, g)
                   ELSE IF MayOpen(out[e]) THEN openStream(st, g)
                   ELSE maybeSendBlockedFrame(Enqueue(st, g)))
  /\ UNCHANGED <<cur, reset>> /\ UNCHANGED inVars

(* The select: the token (or the closed channel), or the context.          *)
SelectToken(g) ==
  /\ opener[g].pc = "select" /\ (opener[g].token \/ out[opener[g].map].closed)
  /\ opener' = [opener EXCEPT ![g].pc = "woken", ![g].token = FALSE]
  /\ UNCHANGED <<out, cur, reset, blocked>> /\ UNCHANGED inVars
SelectDone(g) ==
  /\ opener[g].pc = "select" /\ opener[g].ctx
  /\ opener' = [opener EXCEPT ![g].pc = "done"]
  /\ UNCHANGED <<out, cur, reset, blocked>> /\ UNCHANGED inVars

Leave(st, g) == maybeUnblockOpenSync(Fail([st EXCEPT !.m.openQueue = SelectSeq(@, LAMBDA x : x # g)], g))
OpenFirst(st, g) == maybeUnblockOpenSync([openStream(st, g) EXCEPT !.m.openQueue = Tail(@)])
Canceled(g) ==
  /\ opener[g].pc = "done"
  /\ Keep(opener[g].map, Leave(State(out[opener[g].map], opener), g))
  /\ UNCHANGED <<cur, reset>> /\ UNCHANGED inVars
Woken(g) ==
  /\ opener[g].pc = "woken"
  /\ LET e == opener[g].map
         st == State(out[e], opener)
     IN Keep(e, IF out[e].closed THEN Fail(st, g)
                ELSE IF opener[g].ctx THEN Leave(st, g)
                ELSE IF out[e].nextStream > out[e].maxStream THEN [st EXCEPT !.g[g].pc = "select"]
                ELSE OpenFirst(st, g))
  /\ UNCHANGED <<cur, reset>> /\ UNCHANGED inVars

CancelOpen(g) ==
  /\ ~opener[g].ctx /\ opener[g].pc \in {"lock", "select", "woken"}
  /\ opener' = [opener EXCEPT ![g].ctx = TRUE]
  /\ UNCHANGED <<out, cur, reset, blocked>> /\ UNCHANGED inVars

(* The application uses the stream until it completes and is deleted (or   *)
(* sees the error), and opens another.                                     *)
DeleteOutgoing(m, id) == [m EXCEPT !.streams = @ \ {id}]
NextOpen(g) ==
  /\ opener[g].pc \in {"opened", "failed"} /\ out[cur].nextStream <= LastStream
  /\ out' = [out EXCEPT ![opener[g].map] = DeleteOutgoing(@, opener[g].got)]
  /\ opener' = [opener EXCEPT ![g] = [@ EXCEPT !.pc = "idle", !.ctx = FALSE, !.token = FALSE, !.got = 0]]
  /\ UNCHANGED <<cur, reset, blocked>> /\ UNCHANGED inVars

(* SetMaxStream: on MAX_STREAMS, and on the transport parameters.          *)
SetMaxStream(st, n) ==
  LET m == [st.m EXCEPT !.maxStream = n, !.blockedSent = FALSE]
      raised == [st EXCEPT !.m = m]
  IN IF n <= st.m.maxStream THEN st
     ELSE maybeUnblockOpenSync(IF n < m.nextStream - 1 + Len(m.openQueue)
                               THEN maybeSendBlockedFrame(raised) ELSE raised)
HandleMaxStreams(n) ==
  /\ ~out[cur].closed /\ n > out[cur].maxStream
  /\ Keep(cur, SetMaxStream(State(out[cur], opener), n))
  /\ UNCHANGED <<cur, reset>> /\ UNCHANGED inVars

CloseOutgoing(m) == [m EXCEPT !.closed = TRUE, !.openQueue = <<>>]

(* ResetFor0RTT: the peer has seen nothing of the first epoch.             *)
ResetFor0RTT ==
  /\ sc.reset /\ cur = 0 /\ in.nextStreamToOpen = 1 /\ limits = {}
  /\ out' = [out EXCEPT ![0] = CloseOutgoing(@)]
  /\ cur' = 1 /\ reset' = TRUE /\ blocked' = {}
  /\ UNCHANGED opener /\ UNCHANGED inVars
UseResetMaps ==
  /\ reset /\ reset' = FALSE
  /\ UNCHANGED <<out, cur, opener, blocked>> /\ UNCHANGED inVars
CloseWithError ==
  /\ cur = 1 \/ ~sc.reset
  /\ ~out[cur].closed
  /\ out' = [out EXCEPT ![cur] = CloseOutgoing(@)]
  /\ UNCHANGED <<cur, reset, opener, blocked>> /\ UNCHANGED inVars

-----------------------------------------------------------------------------
(* The incoming map.                                                       *)

(* A token goes to the first acceptor parked in the select, or into the    *)
(* buffer; it is dropped when the buffer holds one.  c = <<chan, parked>>. *)
SendToken(c) ==
  IF c[2] # <<>> THEN <<c[1], Tail(c[2])>> ELSE <<TRUE, c[2]>>
Wake(woken) == [g \in Acceptors |-> IF g \in woken THEN "lock" ELSE acceptor[g]]

(* GetOrOpenStream, for a frame of stream id: opens all streams up to id.  *)
OpenedBy(id) == {n \in in.nextStreamToOpen .. id : TRUE}
GetOrOpenStream(id) ==
  /\ failed = "none" /\ ~in.closed
  /\ IF id > in.maxStream
     THEN failed' = "STREAM_LIMIT_ERROR" /\ UNCHANGED <<in, chan, parked, acceptor>>
     ELSE LET c == FoldLeft(LAMBDA a, n : SendToken(a), <<chan, parked>>, [n \in 1 .. Cardinality(OpenedBy(id)) |-> n])
          IN /\ in' = [in EXCEPT !.streams = @ \cup OpenedBy(id),
                                 !.nextStreamToOpen = IF id < @ THEN @ ELSE id + 1]
             /\ chan' = c[1] /\ parked' = c[2]
             /\ acceptor' = Wake(ToSet(parked) \ ToSet(c[2]))
             /\ UNCHANGED failed
  /\ UNCHANGED <<accepted, limits>> /\ UNCHANGED outVars

(* A frame of a stream the opener has open, or had (reordered).            *)
HandleStreamFrame(id) == id < out[cur].nextStream /\ id \notin in.streams \cup in.deleted /\ GetOrOpenStream(id)

(* deleteStream: <<map, MAX_STREAMS frames>>.  A stream that is not        *)
(* accepted yet is deleted when it is.                                     *)
Raised(m) == m.nextStreamToOpen + MaxNumStreams - Cardinality(m.streams) - 1
deleteStream(m, id) ==
  LET removed == [m EXCEPT !.streams = @ \ {id}, !.shouldDelete = @ \ {id}, !.deleted = @ \cup {id}]
  IN IF id >= m.nextStreamToAccept THEN <<[m EXCEPT !.shouldDelete = @ \cup {id}], {}>>
     ELSE IF Cardinality(removed.streams) >= MaxNumStreams THEN <<removed, {}>>
     ELSE <<[removed EXCEPT !.maxStream = Raised(removed)], {Raised(removed)}>>
DeleteIncoming(id) ==
  /\ LET res == deleteStream(in, id) IN in' = res[1] /\ limits' = limits \cup res[2]
  /\ UNCHANGED <<chan, parked, acceptor, accepted, failed>> /\ UNCHANGED outVars

(* AcceptStream: drain the channel; then, under the lock, look for the     *)
(* next stream; else unlock, and select.                                   *)
CallAccept(g) ==
  /\ acceptor[g] = "idle" /\ g \in sc.accepting /\ ~in.closed
  /\ chan' = FALSE
  /\ acceptor' = [acceptor EXCEPT ![g] = "lock"]
  /\ UNCHANGED <<in, parked, accepted, limits, failed>> /\ UNCHANGED outVars
AcceptStream(g) ==
  /\ acceptor[g] = "lock"
  /\ LET id == in.nextStreamToAccept
         m == [in EXCEPT !.nextStreamToAccept = @ + 1]
         res == IF id \in in.shouldDelete THEN deleteStream(m, id) ELSE <<m, {}>>
     IN IF ~in.closed /\ id \in in.streams
        THEN /\ in' = res[1] /\ limits' = limits \cup res[2] /\ accepted' = Append(accepted, id)
             /\ acceptor' = [acceptor EXCEPT ![g] = "idle"]
        ELSE /\ acceptor' = [acceptor EXCEPT ![g] = IF in.closed THEN "idle" ELSE "select"]
             /\ UNCHANGED <<in, limits, accepted>>
  /\ UNCHANGED <<chan, parked, failed>> /\ UNCHANGED outVars
SelectNewStream(g) ==
  /\ acceptor[g] = "select"
  /\ IF chan \/ in.closed
     THEN chan' = FALSE /\ acceptor' = [acceptor EXCEPT ![g] = "lock"] /\ UNCHANGED parked
     ELSE /\ acceptor' = [acceptor EXCEPT ![g] = "parked"] /\ parked' = Append(parked, g)
          /\ UNCHANGED chan
  /\ UNCHANGED <<in, accepted, limits, failed>> /\ UNCHANGED outVars
CloseIncoming ==
  /\ ~in.closed /\ in' = [in EXCEPT !.closed = TRUE]
  /\ parked' = <<>> /\ acceptor' = Wake(ToSet(parked))
  /\ UNCHANGED <<chan, accepted, limits, failed>> /\ UNCHANGED outVars
(* The context of an AcceptStream ends: it returns from the select.        *)
CancelAccept(g) ==
  /\ acceptor[g] \in {"select", "parked"}
  /\ acceptor' = [acceptor EXCEPT ![g] = "idle"]
  /\ parked' = SelectSeq(parked, LAMBDA x : x # g)
  /\ UNCHANGED <<in, chan, accepted, limits, failed>> /\ UNCHANGED outVars

-----------------------------------------------------------------------------
(* The transport parameters carry the first limit.                         *)
Limits == limits \cup {MaxNumStreams}
Opening == \E g \in Openers :
  \/ OpenStreamSync(g) \/ SelectToken(g) \/ SelectDone(g) \/ Canceled(g) \/ Woken(g)
Accepting == \E g \in Acceptors : AcceptStream(g) \/ SelectNewStream(g)

Occurs ==
  \/ Opening \/ Accepting
  \/ \E g \in sc.opening : OpenStream(g) \/ CallOpenStreamSync(g) \/ CancelOpen(g) \/ NextOpen(g)
  \/ \E n \in Limits : HandleMaxStreams(n)
  \/ ResetFor0RTT \/ UseResetMaps \/ CloseWithError \/ CloseIncoming
  \/ \E id \in 1 .. LastStream : HandleStreamFrame(id)
  \/ \E id \in in.streams \ in.shouldDelete : ~in.closed /\ DeleteIncoming(id)
  \/ \E g \in Acceptors : CallAccept(g) \/ CancelAccept(g)

Next == Occurs /\ UNCHANGED sc
Spec == Init /\ [][Next]_vars

-----------------------------------------------------------------------------
TypeOK ==
  /\ in.shouldDelete \subseteq in.streams /\ ToSet(parked) \subseteq Acceptors
  /\ \A e \in {0, 1} : out[e].streams \subseteq 1 .. out[e].nextStream - 1 /\ ToSet(out[e].openQueue) \subseteq Openers
  /\ failed \in {"none", "STREAM_LIMIT_ERROR"}

(* The two maps agree: whatever the order in which MAX_STREAMS frames      *)
(* arrive, the opener never opens a stream its peer's GetOrOpenStream      *)
(* would refuse.                                                           *)
LimitsAgree == failed = "none" /\ out[cur].maxStream <= in.maxStream

(* At most MaxNumStreams incoming streams are open (or wait to be          *)
(* accepted) at any time.                                                  *)
ConcurrencyBounded ==
  Cardinality(in.streams) <= MaxNumStreams /\ in.maxStream <= in.nextStreamToOpen + MaxNumStreams - 1

(* Every stream the peer opened is accepted once, in the order of the ids, *)
(* also those that completed before.                                       *)
AcceptedInOrder ==
  /\ accepted = [i \in 1 .. in.nextStreamToAccept - 1 |-> i]
  /\ \A id \in 1 .. in.nextStreamToOpen - 1 : id \in in.streams \/ id < in.nextStreamToAccept

(* Nobody waits for what is there: if the first in the open queue could    *)
(* open a stream, it holds a token or is on its way.                       *)
FirstIsWoken ==
  \A e \in {0, 1} : LET q == out[e].openQueue IN
    q # <<>> /\ out[e].nextStream <= out[e].maxStream =>
      opener[Head(q)].token \/ opener[Head(q)].pc \in {"woken", "done"}

(* The peer is told: whenever an OpenStreamSync waits for the limit to     *)
(* rise, a STREAMS_BLOCKED frame was sent for that limit.                  *)
BlockedIsTold ==
  out[cur].openQueue # <<>> /\ out[cur].nextStream > out[cur].maxStream => out[cur].maxStream \in blocked

(* "returns the next stream opened by the peer, blocking until one is      *)
(* available": no AcceptStream sleeps while the next stream is there and   *)
(* nobody is on the way to it.                                             *)
AcceptorsWoken ==
  parked # <<>> /\ (in.closed \/ in.nextStreamToAccept \in in.streams) => \E g \in Acceptors : acceptor[g] \in {"lock", "select"}

(* Only the goroutine that waited longest opens a stream, and a closed map *)
(* opens none.                                                             *)
NoOvertaking ==
  [][\A e \in {0, 1} : out'[e].nextStream > out[e].nextStream =>
       /\ ~out[e].closed
       /\ out[e].openQueue # <<>> => opener'[Head(out[e].openQueue)].got = out[e].nextStream]_vars

=============================================================================
