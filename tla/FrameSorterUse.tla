--------------------------- MODULE FrameSorterUse --------------------------
(***************************************************************************)
(* A frame sorter fed by a peer that sends every stretch of the stream, in *)
(* any order and overlapping in any way, and emptied by a reader.  The     *)
(* reference is the set of bytes received so far: what the queue holds,    *)
(* what the gaps leave out and what the reader gets are all determined by  *)
(* it, whatever the order of the pushes.                                   *)
(***************************************************************************)
EXTENDS FrameSorter

CONSTANTS StreamLen, MaxPushes

VARIABLES fs,        (* the sorter *)
          received,  (* the bytes pushed so far *)
          out,       (* the bytes popped *)
          released,  (* how often the buffer of each push was released *)
          reading    (* the buffer of the frame the reader holds *)

vars == <<fs, received, out, released, reading>>

(* The byte at offset p is p itself.                                       *)
Bytes(a, b) == [i \in 1 .. b - a |-> a + i - 1]
Pushes == Len(released)

Init ==
  /\ fs = newFrameSorter
  /\ received = {}
  /\ out = <<>>
  /\ released = <<>>
  /\ reading = NoBuf

Release(counts, bufs) == [i \in DOMAIN counts |-> counts[i] + (IF i \in bufs THEN 1 ELSE 0)]

Push(a, b) ==
  /\ Pushes < MaxPushes
  /\ LET buf == Pushes + 1
         res == push(fs, Bytes(a, b), a, buf)
     IN /\ fs' = res.fs
        /\ released' = Release(Append(released, 0), res.done)
        /\ received' = received \cup a .. b - 1
  /\ UNCHANGED <<out, reading>>

(* The reader takes the next frame, done with the previous one.            *)
Take ==
  /\ fs.readPos \in DOMAIN fs.queue
  /\ LET res == Pop(fs)
     IN /\ fs' = res.fs
        /\ out' = out \o res.data
        /\ released' = Release(released, {reading} \ {NoBuf})
        /\ reading' = res.buf
  /\ UNCHANGED received

Next == (\E a \in 0 .. StreamLen - 1 : \E b \in a .. StreamLen : Push(a, b)) \/ Take

Spec == Init /\ [][Next]_vars

----------------------------------------------------------------------------

Span(p) == p .. p + Len(fs.queue[p].data) - 1
InGaps == UNION {g.Start .. Min({g.End, StreamLen}) - 1 : g \in Range(fs.gaps)}

(* The gaps are exactly the bytes not received, and the queue holds every  *)
(* received byte that was not read, once, with the right content: push may *)
(* cut, replace or drop a frame but never lose or repeat a byte of it, and *)
(* the reader gets the stream in order.  The gaps stay in order and apart, *)
(* and the first one is beyond the read position (Pop panics if not).      *)
GapsAndQueueExact ==
  /\ InGaps = (0 .. StreamLen - 1) \ received
  /\ UNION {Span(p) : p \in DOMAIN fs.queue} = received \ 0 .. fs.readPos - 1
  /\ \A p, q \in DOMAIN fs.queue : p # q => Span(p) \cap Span(q) = {}
  /\ \A p \in DOMAIN fs.queue : fs.queue[p].data = Bytes(p, p + Len(fs.queue[p].data))
  /\ out = Bytes(0, Len(out))
  /\ \A i \in DOMAIN fs.gaps : fs.gaps[i].Start < fs.gaps[i].End
  /\ \A i \in 1 .. Len(fs.gaps) - 1 : fs.gaps[i].End < fs.gaps[i + 1].Start
  /\ fs.gaps[1].End > fs.readPos

(* A buffer goes back to the pool once, and not while an entry or the      *)
(* reader still uses it; a buffer that is in neither place has gone back.  *)
BuffersReleasedOnce ==
  \A i \in DOMAIN released :
    released[i] = IF reading = i \/ \E p \in DOMAIN fs.queue : fs.queue[p].buf = i THEN 0 ELSE 1

(* Every byte once, and every buffer released once (frameSorter.push,      *)
(* Pop).                                                                   *)
BytesReassembled ==
  /\ GapsAndQueueExact
  /\ BuffersReleasedOnce
=============================================================================
