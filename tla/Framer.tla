------------------------------- MODULE Framer ------------------------------
(***************************************************************************)
(* The framer (framer.go): which frames go into the next packet.  Streams  *)
(* announce new data, lost data and changed priorities from their own      *)
(* goroutines after they released their own lock, so an announcement       *)
(* (calls) may be overtaken by packets, by a second change and by the end  *)
(* of the stream.  A queue entry carries the generation of the priority it *)
(* was made under, and a stale entry is discarded where it is found.       *)
(*                                                                         *)
(* Data is counted in units of which a packet holds Room.  The heap of the *)
(* non-incremental streams is a set of entries, smallest id first; of two  *)
(* entries of one stream, the stale one is taken first.                    *)
(***************************************************************************)
EXTENDS Naturals, Sequences, SequencesExt, FiniteSets, FiniteSetsExt

CONSTANTS Streams,          \* a set of stream ids
          Urgencies,        \* 0 .. 7 in the code
          Room,             \* units in a packet
          MaxData,          \* units a stream is given
          MaxControlFrames,
          MaxPathResponses,
          Scenarios         \* records [may, to, changes, writes, window, first, last]: what happens, to
                            \* which stream, the priority changes, sizes of writes, windows and first priorities

VARIABLES sc,       \* the scenario
          f,        \* the framer
          prio,     \* prio[s]: [urgency, incremental, generation]
          data,     \* data[s]: units waiting in the stream
          given,    \* given[s]: units given so far
          win,      \* win[s]: units the stream's flow control window allows
          lost,     \* lost[s]: units to be retransmitted
          credit,   \* units the connection's window allows
          canceled, \* streams with CancelWrite
          done,     \* completed streams
          calls,    \* announcements on their way
          packet    \* the frames of the last packet

vars == <<sc, f, prio, data, given, win, lost, credit, canceled, done, calls, packet>>

Entry(s, g) == [id |-> s, generation |-> g]
Order == SetToSortSeq(Urgencies, LAMBDA a, b : a < b)

newFramer ==
  [active |-> <<>>, retransmit |-> {}, controlStreams |-> {}, controlFrames |-> <<>>, pathResponses |-> 0,
   tooMany |-> FALSE, incremental |-> [u \in Urgencies |-> <<>>], nonIncremental |-> [u \in Urgencies |-> {}],
   lastWasIncremental |-> [u \in Urgencies |-> FALSE], retransmissions |-> [u \in Urgencies |-> <<>>]]

Init ==
  /\ f = newFramer
  /\ sc \in Scenarios
  /\ prio = [s \in Streams |-> LET p == IF s = Max(Streams) THEN sc.last ELSE sc.first IN
                               [urgency |-> p[1], incremental |-> p[2], generation |-> 0]]
  /\ data = [s \in Streams |-> 0] /\ given = data /\ lost = data
  /\ win = [s \in Streams |-> sc.window[1]]
  /\ credit = sc.window[2]
  /\ canceled = {} /\ done = {} /\ calls = {} /\ packet = <<>>

-----------------------------------------------------------------------------
(* Announcements.                                                          *)

Drop(fn, s) == [x \in DOMAIN fn \ {s} |-> fn[x]]
With(fn, s, v) == [x \in DOMAIN fn \cup {s} |-> IF x = s THEN v ELSE fn[x]]

Enqueue(fr, s, p) ==
  LET e == Entry(s, p.generation) IN
  [(IF p.incremental THEN [fr EXCEPT !.incremental[p.urgency] = Append(@, e)]
    ELSE [fr EXCEPT !.nonIncremental[p.urgency] = @ \cup {e}])
   EXCEPT !.active = With(@, s, p.generation)]

Queued(fr, s, g) == s \in DOMAIN fr.active /\ fr.active[s] = g

AddActiveStream(fr, s, p) == IF Queued(fr, s, p.generation) THEN fr ELSE Enqueue(fr, s, p)
UpdateStreamPriority(fr, s, p) ==
  IF s \notin DOMAIN fr.active \/ Queued(fr, s, p.generation) THEN fr ELSE Enqueue(fr, s, p)
AddStreamWithRetransmission(fr, s, p) ==
  IF s \in fr.retransmit THEN fr
  ELSE [fr EXCEPT !.retransmissions[p.urgency] = Append(@, s), !.retransmit = @ \cup {s}]
AddStreamWithControlFrames(fr, s) == [fr EXCEPT !.controlStreams = @ \cup {s}]
RemoveActiveStream(fr, s) == [fr EXCEPT !.active = Drop(@, s), !.retransmit = @ \ {s}]

(* MAX_DATA and the like are obsolete when 0-RTT is rejected.              *)
Obsolete == {"MAX_DATA", "STREAM_DATA_BLOCKED", "DATA_BLOCKED"}
Handle0RTTRejection(fr) ==
  [newFramer EXCEPT !.controlFrames = SelectSeq(fr.controlFrames, LAMBDA c : c \notin Obsolete),
                    !.pathResponses = fr.pathResponses, !.tooMany = fr.tooMany]

QueueControlFrame(fr, c) ==
  IF c = "PATH_RESPONSE"
  THEN [fr EXCEPT !.pathResponses = IF @ >= MaxPathResponses THEN @ ELSE @ + 1]
  ELSE IF Len(fr.controlFrames) >= MaxControlFrames THEN [fr EXCEPT !.tooMany = TRUE]
  ELSE [fr EXCEPT !.controlFrames = Append(@, c)]

-----------------------------------------------------------------------------
(* A packet.  a is the packet so far: the framer, the streams' data, the   *)
(* windows, the frames in it and the room left.                            *)

Frame(type, s, n) == [type |-> type, id |-> s, n |-> n]
Add(a, fr) == [a EXCEPT !.frames = Append(@, fr), !.room = @ - fr.n]
Fits(a) == a.room > 0

(* appendControlFrames: one PATH_RESPONSE, the frames of streams, and the  *)
(* others, the last queued first.                                          *)
PathResponseFirst(a) ==
  IF a.f.pathResponses = 0 \/ ~Fits(a) THEN a
  ELSE Add([a EXCEPT !.f.pathResponses = @ - 1], Frame("PATH_RESPONSE", 0, 1))
StreamControl(a) ==
  LET n == Min({a.room, Cardinality(a.f.controlStreams)})
      taken == CHOOSE ss \in SUBSET a.f.controlStreams : Cardinality(ss) = n
  IN [a EXCEPT !.f.controlStreams = @ \ taken, !.room = @ - n,
               !.frames = @ \o SetToSeq({Frame("STREAM_CONTROL", s, 1) : s \in taken})]
RECURSIVE OtherControl(_)
OtherControl(a) ==
  IF a.f.controlFrames = <<>> \/ ~Fits(a) THEN a
  ELSE OtherControl(Add([a EXCEPT !.f.controlFrames = Front(@)], Frame(Last(a.f.controlFrames), 0, 1)))
appendControlFrames(a) == OtherControl(StreamControl(PathResponseFirst(a)))

(* Lost data goes before new data, and stays with the first stream until   *)
(* all of it is sent.                                                      *)
PopBucket(a, u) == [a EXCEPT !.f.retransmissions[u] = Tail(@)]
RECURSIVE Retransmit(_, _)
Retransmit(a, u) ==
  IF a.f.retransmissions[u] = <<>> \/ ~Fits(a) THEN a
  ELSE LET s == Head(a.f.retransmissions[u])
           n == Min({a.room, a.lost[s]})
           sent == [a EXCEPT !.lost[s] = @ - n]
           b == IF n > 0 THEN Add(sent, Frame("RETRANSMISSION", s, n)) ELSE a
       IN IF s \notin a.f.retransmit THEN Retransmit(PopBucket(a, u), u)
          ELSE IF prio[s].urgency # u
          THEN Retransmit([PopBucket(a, u) EXCEPT !.f.retransmissions[prio[s].urgency] = Append(@, s)], u)
          ELSE IF b.lost[s] = 0 THEN Retransmit([PopBucket(b, u) EXCEPT !.f.retransmit = @ \ {s}], u)
          ELSE Retransmit(b, u)

(* popStreamFrame of the stream and of the framer: <<packet, has more>>.   *)
(* A stream whose own window is used up leaves the queue (it comes back    *)
(* with MAX_STREAM_DATA); on the connection's window it waits in it.       *)
PopFrame(a, s) ==
  LET n == Min({a.room, a.data[s], a.win[s], a.credit})
      b == Add([a EXCEPT !.data[s] = @ - n, !.win[s] = @ - n, !.credit = @ - n], Frame("STREAM", s, n))
      blocked == n > 0 /\ b.win[s] = 0
      c == IF ~blocked THEN b
           ELSE IF Fits(b) THEN Add(b, Frame("STREAM_DATA_BLOCKED", s, 1))
           ELSE [b EXCEPT !.f.controlFrames = Append(@, "STREAM_DATA_BLOCKED"), !.halted = TRUE]
  IN IF a.data[s] = 0 THEN <<a, FALSE>>
     ELSE IF n = 0 THEN <<a, TRUE>>
     ELSE <<c, c.data[s] > 0 /\ ~blocked>>
popStreamFrameOnce(a, s) == <<[PopFrame(a, s)[1] EXCEPT !.f.active = Drop(@, s)], FALSE>>
popStreamFrame(a, s) ==
  LET res == PopFrame(a, s)
  IN IF res[2] THEN res ELSE <<[res[1] EXCEPT !.f.active = Drop(@, s)], FALSE>>

Live(a, e) == e.id \in DOMAIN a.f.active /\ prio[e.id].generation = e.generation

getNextIncrementalStreamFrame(a, u) ==
  LET q == a.f.incremental[u]
      e == Head(q)
      res == popStreamFrame([a EXCEPT !.f.incremental[u] = Tail(@), !.f.lastWasIncremental[u] = TRUE], e.id)
  IN IF q = <<>> THEN a
     ELSE IF ~Live(a, e) THEN [a EXCEPT !.f.incremental[u] = Tail(@)]
     ELSE IF res[2] THEN [res[1] EXCEPT !.f.incremental[u] = Append(@, e)]
     ELSE res[1]

FirstEntry(h) ==
  CHOOSE e \in h : \A x \in h : e.id < x.id \/ (e.id = x.id /\ e.generation <= x.generation)
getNextNonIncrementalStreamFrame(a, u) ==
  LET h == a.f.nonIncremental[u]
      e == FirstEntry(h)
      res == popStreamFrame([a EXCEPT !.f.lastWasIncremental[u] = FALSE], e.id)
  IN IF ~Live(a, e) THEN [a EXCEPT !.f.nonIncremental[u] = @ \ {e}]
     ELSE IF res[2] THEN res[1]
     ELSE [res[1] EXCEPT !.f.nonIncremental[u] = @ \ {e}]

(* Within an urgency the two kinds take turns.                             *)
getNextStreamFrame(a, u) ==
  IF \/ a.f.nonIncremental[u] = {}
     \/ ~a.f.lastWasIncremental[u] /\ a.f.incremental[u] # <<>>
  THEN getNextIncrementalStreamFrame(a, u)
  ELSE getNextNonIncrementalStreamFrame(a, u)

NumActive(fr, u) == Len(fr.incremental[u]) + Cardinality(fr.nonIncremental[u])
RECURSIVE Turns(_, _, _)
Turns(a, u, n) ==
  IF n = 0 \/ ~Fits(a) \/ a.halted THEN [a EXCEPT !.halted = FALSE]
  ELSE Turns(getNextStreamFrame(a, u), u, n - 1)
NewData(a, u) == Turns(a, u, NumActive(a.f, u))

ConnBlocked(a) ==
  IF credit = 0 \/ a.credit > 0 THEN a
  ELSE IF Fits(a) THEN Add(a, Frame("DATA_BLOCKED", 0, 1))
  ELSE [a EXCEPT !.f.controlFrames = Append(@, "DATA_BLOCKED")]

AppendFrames(a) ==
  ConnBlocked(FoldLeft(NewData, FoldLeft(Retransmit, appendControlFrames(a), Order), Order))

-----------------------------------------------------------------------------
HasData ==
  \/ f.controlStreams # {} \/ f.controlFrames # <<>> \/ f.pathResponses > 0
  \/ \E u \in Urgencies : NumActive(f, u) > 0 \/ f.retransmissions[u] # <<>>

Send ==
  /\ HasData
  /\ LET a == AppendFrames([f |-> f, data |-> data, win |-> win, lost |-> lost, credit |-> credit,
                            frames |-> <<>>, room |-> Room, halted |-> FALSE])
     IN /\ f' = a.f /\ data' = a.data /\ win' = a.win /\ lost' = a.lost /\ credit' = a.credit
        /\ packet' = a.frames
  /\ UNCHANGED <<prio, given, canceled, done, calls>>

(* Write queues data in the stream and announces it (onHasStreamData).     *)
Write(s, n) ==
  /\ s \notin canceled \cup done /\ given[s] + n <= MaxData
  /\ data' = [data EXCEPT ![s] = @ + n] /\ given' = [given EXCEPT ![s] = @ + n]
  /\ calls' = calls \cup {<<"active", s>>}
  /\ UNCHANGED <<f, prio, win, lost, credit, canceled, done, packet>>

(* MAX_STREAM_DATA and MAX_DATA.                                           *)
MaxStreamData(s) ==
  /\ s \notin done /\ win[s] = 0
  /\ win' = [win EXCEPT ![s] = MaxData]
  /\ calls' = IF data[s] > 0 THEN calls \cup {<<"active", s>>} ELSE calls
  /\ UNCHANGED <<f, prio, data, given, lost, credit, canceled, done, packet>>
MaxConnectionData ==
  /\ credit = 0 /\ credit' = MaxData
  /\ UNCHANGED <<f, prio, data, given, win, lost, canceled, done, calls, packet>>

(* The loss of a STREAM frame sent in the last packet.                     *)
Lose(i) ==
  /\ packet[i].type = "STREAM" /\ packet[i].id \notin canceled \cup done
  /\ LET s == packet[i].id IN
     /\ lost' = [lost EXCEPT ![s] = @ + packet[i].n]
     /\ calls' = IF lost[s] = 0 THEN calls \cup {<<"retransmission", s>>} ELSE calls
  /\ packet' = <<>>
  /\ UNCHANGED <<f, prio, data, given, win, credit, canceled, done>>

SetPriority(s, u, inc) ==
  /\ prio[s].generation < sc.changes
  /\ <<u, inc>> # <<prio[s].urgency, prio[s].incremental>>
  /\ prio' = [prio EXCEPT ![s] = [urgency |-> u, incremental |-> inc, generation |-> @.generation + 1]]
  /\ calls' = calls \cup {<<"priority", s>>}
  /\ UNCHANGED <<f, data, given, win, lost, credit, canceled, done, packet>>

(* CancelWrite drops what is queued and announces a RESET_STREAM; the      *)
(* stream completes when that is acknowledged (onStreamCompleted).         *)
CancelWrite(s) ==
  /\ s \notin canceled \cup done /\ given[s] > 0
  /\ canceled' = canceled \cup {s}
  /\ data' = [data EXCEPT ![s] = 0] /\ lost' = [lost EXCEPT ![s] = 0]
  /\ calls' = calls \cup {<<"control", s>>}
  /\ UNCHANGED <<f, prio, given, win, credit, done, packet>>
Complete(s) ==
  /\ s \in canceled \ done /\ s \notin f.controlStreams /\ <<"control", s>> \notin calls
  /\ f' = RemoveActiveStream(f, s) /\ done' = done \cup {s}
  /\ UNCHANGED <<prio, data, given, win, lost, credit, canceled, calls, packet>>

Announce(c) ==
  /\ calls' = calls \ {c}
  /\ f' = LET s == c[2] IN
          CASE c[1] = "active" -> AddActiveStream(f, s, prio[s])
            [] c[1] = "retransmission" -> AddStreamWithRetransmission(f, s, prio[s])
            [] c[1] = "priority" -> UpdateStreamPriority(f, s, prio[s])
            [] c[1] = "control" -> AddStreamWithControlFrames(f, s)
  /\ UNCHANGED <<prio, data, given, win, lost, credit, canceled, done, packet>>

Control(c) ==
  /\ f' = QueueControlFrame(f, c) /\ f' # f
  /\ UNCHANGED <<prio, data, given, win, lost, credit, canceled, done, calls, packet>>

(* The streams are closed before the framer forgets them.                  *)
Reject0RTT ==
  /\ done = {} /\ calls = {} /\ packet = <<>> /\ f.active # <<>>
  /\ f' = Handle0RTTRejection(f)
  /\ done' = Streams
  /\ data' = [s \in Streams |-> 0] /\ lost' = data'
  /\ UNCHANGED <<prio, given, win, credit, canceled, calls, packet>>

Occurs ==
  \/ Send \/ MaxConnectionData
  \/ "reject" \in sc.may /\ Reject0RTT
  \/ \E s \in Streams : \/ \E n \in sc.writes : Write(s, n)
                        \/ MaxStreamData(s)
                        \/ "cancel" \in sc.may /\ s = sc.to /\ CancelWrite(s)
                        \/ Complete(s)
                        \/ "priority" \in sc.may /\ s = sc.to /\ \E u \in Urgencies, inc \in BOOLEAN : SetPriority(s, u, inc)
  \/ "loss" \in sc.may /\ \E i \in DOMAIN packet : packet[i].id = sc.to /\ Lose(i)
  \/ \E c \in calls : Announce(c)
  \/ "control" \in sc.may /\ \E c \in {"PATH_RESPONSE", "MAX_DATA", "NEW_TOKEN"} : Control(c)

Next == Occurs /\ UNCHANGED sc

Spec == Init /\ [][Next]_vars

(* The run loop sends as long as there is something to send, announcements *)
(* arrive, and the peer returns credit.                                    *)
Progress == Send \/ MaxConnectionData \/ (\E s \in Streams : MaxStreamData(s)) \/ \E c \in calls : Announce(c)
HasWork == HasData \/ credit = 0 \/ calls # {} \/ \E s \in Streams \ done : win[s] = 0
FairSpec == Spec /\ ([]<>(~HasWork) \/ []<><<Progress>>_vars)

-----------------------------------------------------------------------------
LiveIn(s, u) ==
  {i \in DOMAIN f.incremental[u] : f.incremental[u][i] = Entry(s, prio[s].generation)}
  \cup {e \in f.nonIncremental[u] : e = Entry(s, prio[s].generation)}
TypeOK ==
  /\ DOMAIN f.active \subseteq Streams /\ f.retransmit \subseteq Streams
  /\ \A s \in Streams : data[s] <= given[s] /\ given[s] <= MaxData
  /\ Len(f.controlFrames) <= MaxControlFrames + Cardinality(Streams) + 1

(* A stream is scheduled once: it has one live entry, in the queue of its  *)
(* present priority, exactly if the framer holds it under its present      *)
(* generation; with an older generation the change is still to be          *)
(* announced, by SetPriority or by new data.                               *)
ScheduledOnce ==
  \A s \in Streams \ done :
    IF s \notin DOMAIN f.active THEN \A u \in Urgencies : LiveIn(s, u) = {}
    ELSE IF f.active[s] # prio[s].generation THEN <<"priority", s>> \in calls
    ELSE \A u \in Urgencies : Cardinality(LiveIn(s, u)) = IF u = prio[s].urgency THEN 1 ELSE 0

(* Data that may be sent is never forgotten: its stream is scheduled, or   *)
(* will be announced; so is data that was lost.                            *)
NothingForgotten ==
  \A s \in Streams \ done :
    /\ data[s] > 0 /\ win[s] > 0 => s \in DOMAIN f.active \/ <<"active", s>> \in calls
    /\ lost[s] > 0 => s \in f.retransmit \/ <<"retransmission", s>> \in calls

(* In one packet, data of a lower urgency goes out only if all of a higher *)
(* urgency that may go is gone; and new data only after the lost data that *)
(* is queued under the urgency of its stream.                              *)
Sent(p, type) == {p[i].id : i \in {j \in DOMAIN p : p[j].type = type}}
MoreUrgentFirst ==
  [][Send => \A s \in Sent(packet', "STREAM") :
        /\ \A t \in f'.retransmit : lost'[t] > 0 => ~\E i \in DOMAIN f.retransmissions[prio[t].urgency] :
                                                       f.retransmissions[prio[t].urgency][i] = t
        /\ \A t \in DOMAIN f'.active :
             prio[t].urgency < prio[s].urgency /\ f'.active[t] = prio[t].generation => data'[t] = 0 \/ credit' = 0 \/ win'[t] = 0]_vars

(* "retransmit all lost STREAM data before sending new STREAM data".       *)
LostDataFirst ==
  [][Send => Sent(packet', "STREAM") = {} \/ \A t \in f'.retransmit : lost'[t] = 0]_vars

(* Everything written is sent, unless the stream ends first or control     *)
(* frames keep filling the packets.                                        *)
AllSent == "control" \in sc.may \/ \A s \in Streams : data[s] = 0 /\ lost[s] = 0

(* The queues of the framer and the state of the streams agree.            *)
StreamsScheduled ==
  /\ TypeOK
  /\ ScheduledOnce
  /\ NothingForgotten
=============================================================================
