---------------------------- MODULE FrameSorter ----------------------------
(***************************************************************************)
(* The reassembly queue of a receive stream (frame_sorter.go).  A sorter   *)
(* holds the queue, from the offset of an entry to its data and the buffer *)
(* that backs it (the DoneCb that returns it to the pool, NoBuf once it    *)
(* was called), the read position, and the list of gaps in ascending order.*)
(* push is an operator from a sorter to [fs, done, err], done being the    *)
(* buffers whose callback it calls.  Wherever push rewrites a gap or cuts  *)
(* the new data the operator does it in the order of the code, because     *)
(* each step reads what the earlier ones left.                             *)
(***************************************************************************)
EXTENDS Integers, Sequences, SequencesExt, FiniteSetsExt

CONSTANTS MaxByteCount, MinStreamFrameBufferSize, MaxStreamFrameSorterGaps

NoBuf == 0
Interval(a, b) == [Start |-> a, End |-> b]

newFrameSorter == [queue |-> <<>>, readPos |-> 0, gaps |-> <<Interval(0, MaxByteCount)>>]

Drop(q, ps) == [p \in DOMAIN q \ ps |-> q[p]]
Bufs(q, ps) == {q[p].buf : p \in ps \cap DOMAIN q} \ {NoBuf}

(* The positions of the entries that follow each other from pos on.        *)
Consecutive(q, pos) ==
  LET R[p \in Nat] == IF p \in DOMAIN q THEN {p} \cup R[p + Len(q[p].data)] ELSE {}
  IN R[pos]

(* The first gap whose end is not before the offset.                       *)
findStartGap(gaps, offset) ==
  CHOOSE i \in DOMAIN gaps : offset <= gaps[i].End /\ \A j \in 1 .. i - 1 : offset > gaps[j].End

(* <<index, ends in it>>: the gap an offset falls into, or the last one    *)
(* before it.                                                              *)
findEndGap(gaps, sg, offset) ==
  LET i == CHOOSE i \in sg .. Len(gaps) : offset < gaps[i].End /\ \A j \in sg .. i - 1 : offset >= gaps[j].End
  IN IF offset >= gaps[i].Start THEN <<i, TRUE>> ELSE <<i - 1, FALSE>>

(* The entries the new data, up to end, replaces: a run from its start on, *)
(* each shorter than what is left of it, or equal to it if not the first.  *)
Replaced(q, start, end) ==
  LET fits(p) == end - p > Len(q[p].data) \/ (p # start /\ end - p = Len(q[p].data))
      R[p \in Nat] == IF p \in DOMAIN q /\ fits(p) THEN {p} \cup R[p + Len(q[p].data)] ELSE {}
  IN R[start]

RunEnd(q, ps, start) == start + MapThenSumSet(LAMBDA p : Len(q[p].data), ps)

Unchanged(fs, done) == [fs |-> fs, done |-> done, err |-> FALSE]

(* The rest of push, once the entries the new data replaces are out of the *)
(* queue (hit: there were some) and the data runs from start to end.       *)
Insert(fs, buf, q, done, start, end, data, cut, sg, eg, hit) ==
  LET gaps == fs.gaps
      one == sg = eg
      covers == start <= gaps[sg].Start
      (* what becomes of the first gap *)
      first == IF covers THEN (IF end >= gaps[sg].End THEN <<>> ELSE <<Interval(end, gaps[sg].End)>>)
               ELSE IF hit THEN <<gaps[sg]>> ELSE <<Interval(gaps[sg].Start, start)>>
      (* the entries between the gaps it covers, which it covers too *)
      swept == UNION {Consecutive(q, gaps[i].End) : i \in sg .. eg - 1}
      endGap == gaps[eg].End
      (* cut to the end of the last gap *)
      over == end > endGap /\ start # endGap
      end2 == IF over THEN endGap ELSE end
      data2 == IF over THEN SubSeq(data, 1, endGap - start) ELSE data
      last == IF one THEN IF end2 # endGap /\ ~covers /\ ~hit THEN <<Interval(end2, gaps[sg].End)>> ELSE <<>>
              ELSE IF end2 = endGap THEN <<>> ELSE <<Interval(end2, endGap)>>
      gaps2 == SubSeq(gaps, 1, sg - 1) \o first \o last \o SubSeq(gaps, eg + 1, Len(gaps))
      copied == (cut \/ over) /\ Len(data2) < MinStreamFrameBufferSize
      q2 == Drop(q, swept)
      done2 == done \cup Bufs(q, swept) \cup (IF copied THEN {buf} ELSE {})
  IN IF Len(gaps2) > MaxStreamFrameSorterGaps
     THEN [fs |-> [fs EXCEPT !.queue = q2, !.gaps = gaps2], done |-> done2, err |-> TRUE]
     ELSE Unchanged([fs EXCEPT !.queue = [p \in DOMAIN q2 \cup {start} |->
                                            IF p = start THEN [data |-> data2, buf |-> IF copied THEN NoBuf ELSE buf] ELSE q2[p]],
                               !.gaps = gaps2], done2)

push(fs, data, offset, buf) ==
  LET gaps == fs.gaps
      end0 == offset + Len(data)
      sg == findStartGap(gaps, offset)
      eg == findEndGap(gaps, sg, end0)[1]
      dup == Unchanged(fs, {buf})
      rep == Replaced(fs.queue, offset, end0)
      pos == RunEnd(fs.queue, rep, offset)
      longer == pos \in DOMAIN fs.queue      (* the entry that stopped the run *)
      inGap == offset >= gaps[sg].Start
  IN IF data = <<>> \/ end0 <= gaps[1].Start THEN dup
     ELSE IF end0 <= gaps[sg].Start /\ (sg = eg \/ gaps[sg].End >= gaps[eg].Start) THEN dup
     ELSE IF rep = {} /\ longer THEN dup
     ELSE LET end == IF longer THEN pos ELSE end0
              cutLeft == ~inGap /\ rep = {}
              start == IF cutLeft THEN gaps[sg].Start ELSE offset
              kept == SubSeq(data, start - offset + 1, end - offset)
          IN Insert(fs, buf, Drop(fs.queue, rep), Bufs(fs.queue, rep), start, end, kept, longer \/ cutLeft, sg, eg, rep # {})

Pop(fs) ==
  IF fs.readPos \notin DOMAIN fs.queue THEN [fs |-> fs, offset |-> fs.readPos, data |-> <<>>, buf |-> NoBuf]
  ELSE LET e == fs.queue[fs.readPos]
       IN [fs |-> [fs EXCEPT !.queue = Drop(@, {fs.readPos}), !.readPos = @ + Len(e.data)],
           offset |-> fs.readPos, data |-> e.data, buf |-> e.buf]

(* The data of the consecutive entries from offset on, of which Peek       *)
(* copies the first bytes if there are as many as it wants.                *)
Ahead(fs, offset) ==
  LET R[p \in Nat] == IF p \in DOMAIN fs.queue THEN fs.queue[p].data \o R[p + Len(fs.queue[p].data)] ELSE <<>>
  IN R[offset]
=============================================================================
