---------------------------- MODULE CryptoStream ---------------------------
(***************************************************************************)
(* The CRYPTO stream of the Initial encryption level, from the TLS stack   *)
(* of the client to the one of the server (crypto_stream.go).  The client  *)
(* waits for the whole ClientHello, then sends it with pieces of the       *)
(* server name and of the ECH extension cut out, the pieces last, and      *)
(* sends anything later in order.  Frames are delivered in any order, more *)
(* than once, and split when they are retransmitted.  The server puts them *)
(* back together, and finishes the stream when its encryption level        *)
(* changes.  The byte at offset p of the stream is p itself.               *)
(***************************************************************************)
EXTENDS FrameSorter

CONSTANTS EchCut,      (* bytes of the ECH extension that are cut out *)
          FrameHeader, (* length of type, offset and length of a frame *)
          Scenarios    (* [hello, sniPos, sniLen, echPos, later, rooms, deliver] *)

VARIABLES sc, send, sent, rcv

vars == <<sc, send, sent, rcv>>

InvalidByteCount == -1
NoCut == [start |-> InvalidByteCount, end |-> InvalidByteCount]
NoFrame == [Offset |-> InvalidByteCount, Data |-> <<>>]
CryptoFrame(offset, data) == [Offset |-> offset, Data |-> data]
MaxDataLen(maxSize) == Max({0, maxSize - FrameHeader})

Bytes(a, b) == [i \in 1 .. b - a |-> a + i - 1]
Total == sc.hello + sc.later

(* writeBuf[a:b] of the code.                                              *)
Slice(buf, a, b) == SubSeq(buf, a + 1, b)

newInitialCryptoStream ==
  [writeBuf |-> <<>>, writeOffset |-> 0, scramble |-> TRUE, end |-> 0, cuts |-> <<NoCut, NoCut>>, total |-> 0]

Init ==
  /\ sc \in Scenarios
  /\ send = newInitialCryptoStream
  /\ sent = {}
  /\ rcv = [fs |-> newFrameSorter, highestOffset |-> 0, finished |-> FALSE, got |-> <<>>, err |-> FALSE]

HasData(s) ==
  /\ ~(s.scramble /\ s.writeOffset = 0 /\ s.cuts[1].start = InvalidByteCount)
  /\ s.writeBuf # <<>>

(* Where the ClientHello is cut, once all of it is there.                  *)
sniCut == [start |-> sc.sniPos + sc.sniLen \div 2, end |-> sc.sniPos + sc.sniLen]
echCut(end) == [start |-> sc.echPos + 1, end |-> Min({sc.echPos + 1 + EchCut, end})]
SortedCuts(end) ==
  IF sc.echPos < 0 THEN <<sniCut, NoCut>>
  ELSE IF sniCut.start > echCut(end).start THEN <<echCut(end), sniCut>> ELSE <<sniCut, echCut(end)>>

(* The positions are found once the buffer holds exactly one ClientHello;  *)
(* until then the parser runs out of data.                                 *)
findSNIAndECH(buf) ==
  [found |-> Len(buf) = sc.hello, sniPos |-> sc.sniPos, echPos |-> sc.echPos]

Cut(s) ==
  IF ~s.scramble \/ s.cuts[1].start # InvalidByteCount \/ ~findSNIAndECH(s.writeBuf).found THEN s
  ELSE IF findSNIAndECH(s.writeBuf).sniPos < 0 /\ findSNIAndECH(s.writeBuf).echPos < 0 THEN [s EXCEPT !.scramble = FALSE]
  ELSE [s EXCEPT !.end = Len(s.writeBuf), !.cuts = SortedCuts(Len(s.writeBuf))]

Write(n) ==
  /\ send.total + n <= Total
  /\ n >= 1
  (* the second message answers a server that has read the first *)
  /\ send.total >= sc.hello => IF sc.deliver THEN Len(rcv.got) >= sc.hello ELSE ~HasData(send)
  /\ send.total < sc.hello => send.total + n <= sc.hello
  /\ send' = Cut([send EXCEPT !.writeBuf = @ \o Bytes(send.total, send.total + n), !.total = @ + n])
  /\ UNCHANGED <<sc, sent, rcv>>

Popped(s, f) == [s |-> s, f |-> f]

(* PopCryptoFrame of a stream that is not scrambled.                       *)
PopInOrder(s, maxLen) ==
  LET n == Min({MaxDataLen(maxLen), Len(s.writeBuf)})
  IN IF n <= 0 THEN Popped(s, NoFrame)
     ELSE Popped([s EXCEPT !.writeBuf = Slice(@, n, Len(@)), !.writeOffset = @ + n],
                 CryptoFrame(s.writeOffset, Slice(s.writeBuf, 0, n)))

(* All is sent but the pieces that were cut out.                           *)
PopCut(s, maxLen) ==
  LET i == CHOOSE j \in 1 .. 2 : s.cuts[j] # NoCut /\ \A k \in 1 .. j - 1 : s.cuts[k] = NoCut
      c == s.cuts[i]
      n == Min({MaxDataLen(maxLen), c.end - c.start})
      cuts2 == [s.cuts EXCEPT ![i] = IF c.start + n = c.end THEN NoCut ELSE [c EXCEPT !.start = @ + n]]
  IN IF n <= 0 THEN Popped(s, NoFrame)
     ELSE Popped(IF cuts2 = <<NoCut, NoCut>>
                 THEN [s EXCEPT !.cuts = cuts2, !.writeBuf = Slice(@, s.end, Len(@)), !.end = InvalidByteCount, !.scramble = FALSE]
                 ELSE [s EXCEPT !.cuts = cuts2],
                 CryptoFrame(c.start, Slice(s.writeBuf, c.start, c.start + n)))

(* Up to the next cut, over which the offset jumps.                        *)
PopAround(s, maxLen) ==
  LET later == {i \in 1 .. 2 : s.cuts[i] # NoCut /\ s.cuts[i].start > s.writeOffset}
      nextCut == IF later = {} THEN NoCut ELSE s.cuts[Min(later)]
      maxOffset == IF later = {} THEN s.end ELSE nextCut.start
      n == Min({MaxDataLen(maxLen), maxOffset - s.writeOffset})
  IN IF n <= 0 THEN Popped(s, NoFrame)
     ELSE Popped([s EXCEPT !.writeOffset = IF @ + n = nextCut.start THEN nextCut.end ELSE @ + n],
                 CryptoFrame(s.writeOffset, Slice(s.writeBuf, s.writeOffset, s.writeOffset + n)))

PopCryptoFrame(s, maxLen) ==
  IF ~s.scramble THEN PopInOrder(s, maxLen)
  ELSE IF s.writeOffset = s.end THEN PopCut(s, maxLen)
  ELSE PopAround(s, maxLen)

SendFrame(maxLen) ==
  /\ HasData(send)
  /\ LET res == PopCryptoFrame(send, maxLen)
     IN /\ res.f # NoFrame
        /\ send' = res.s
        /\ sent' = sent \cup {res.f}
  /\ UNCHANGED <<sc, rcv>>

(* A lost frame is retransmitted in two parts, if the packet has less room.*)
MaybeSplitOffFrame(f, maxSize) ==
  LET n == MaxDataLen(maxSize)
  IN IF Len(f.Data) + FrameHeader <= maxSize \/ n = 0 THEN {f}
     ELSE {CryptoFrame(f.Offset, Slice(f.Data, 0, n)), CryptoFrame(f.Offset + n, Slice(f.Data, n, Len(f.Data)))}

Retransmit(f, maxSize) ==
  /\ sc.deliver
  /\ sent' = sent \cup MaybeSplitOffFrame(f, maxSize)
  /\ sent' # sent
  /\ UNCHANGED <<sc, send, rcv>>

(* HandleCryptoFrame, and the loop that hands what can be read to TLS.     *)
ReadAll(fs) == Ahead(fs, fs.readPos)
AfterRead(fs) ==
  [fs EXCEPT !.queue = Drop(@, Consecutive(@, fs.readPos)), !.readPos = @ + Len(ReadAll(fs))]
Received(r, f, res) ==
  IF res.err THEN [r EXCEPT !.err = TRUE]
  ELSE [r EXCEPT !.highestOffset = Max({@, f.Offset + Len(f.Data)}), !.fs = AfterRead(res.fs), !.got = @ \o ReadAll(res.fs)]

HandleCryptoFrameLate(r, f) ==
  IF r.finished THEN [r EXCEPT !.err = TRUE] ELSE Received(r, f, push(r.fs, f.Data, f.Offset, NoBuf))

HandleCryptoFrame(r, f) ==
  IF r.finished THEN [r EXCEPT !.err = f.Offset + Len(f.Data) > r.highestOffset]
  ELSE Received(r, f, push(r.fs, f.Data, f.Offset, NoBuf))

Deliver(f) ==
  /\ sc.deliver /\ ~rcv.err
  /\ rcv' = HandleCryptoFrame(rcv, f)
  /\ rcv' # rcv
  /\ UNCHANGED <<sc, send, sent>>

(* TLS has all it needs of this level and moves to the next.               *)
Finish ==
  /\ Len(rcv.got) = Total /\ ~rcv.finished /\ ~rcv.err
  /\ rcv' = IF rcv.fs.queue # <<>> THEN [rcv EXCEPT !.err = TRUE] ELSE [rcv EXCEPT !.finished = TRUE]
  /\ UNCHANGED <<sc, send, sent>>

Sends == \E maxLen \in sc.rooms : SendFrame(maxLen)
Delivers == \E f \in sent : Deliver(f)
Next ==
  \/ \E n \in {1, sc.hello - 1, sc.later} : Write(n)
  \/ Sends
  \/ \E f \in sent, maxSize \in sc.rooms : Retransmit(f, maxSize)
  \/ Delivers
  \/ Finish

Spec == Init /\ [][Next]_vars

----------------------------------------------------------------------------

Covered(fs) == UNION {f.Offset .. f.Offset + Len(f.Data) - 1 : f \in fs}

TypeOK ==
  /\ sc \in Scenarios
  /\ \A f \in sent : f.Offset \in 0 .. Total /\ Len(f.Data) \in 1 .. Total
  /\ send.total \in 0 .. Total /\ send.writeOffset \in 0 .. send.total
  /\ rcv.highestOffset \in 0 .. Total

(* Every frame carries the bytes of the stream at its offset, the pieces   *)
(* cut out and the halves of split frames included (PopCryptoFrame,        *)
(* MaybeSplitOffFrame).                                                    *)
FramesCarryTheStream == \A f \in sent : f.Data = Bytes(f.Offset, f.Offset + Len(f.Data))

(* When the stream says it has nothing to send, every byte written has     *)
(* been in a frame, wherever the cuts lie (HasData, PopCryptoFrame); only  *)
(* an incomplete ClientHello is held back.                                 *)
EverythingSent ==
  ~HasData(send) => Covered(sent) = 0 .. (IF send.total < sc.hello THEN 0 ELSE send.total) - 1

(* A stream with data always has a frame for a packet with room for one    *)
(* byte: the packer, which asked HasData, never finds an empty packet      *)
(* (initialCryptoStream.HasData and PopCryptoFrame).                       *)
DataMeansFrame == HasData(send) => PopCryptoFrame(send, FrameHeader + 1).f # NoFrame

(* TLS reads the messages in order, byte by byte (handleCryptoFrame).      *)
MessageIntact == rcv.got = Bytes(0, Len(rcv.got))

(* No frame of an honest client is an error for the server, not one that   *)
(* arrives late, after the level was finished, and finishing finds no      *)
(* leftover in the queue (HandleCryptoFrame, Finish).                      *)
HonestNeverRejected == ~rcv.err

(* The messages of the handshake arrive whole, however they were cut       *)
(* (initialCryptoStream).                                                  *)
BytesReassembled ==
  /\ TypeOK
  /\ FramesCarryTheStream
  /\ EverythingSent
  /\ DataMeansFrame
  /\ MessageIntact
  /\ HonestNeverRejected
=============================================================================
