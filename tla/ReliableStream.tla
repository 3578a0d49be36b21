--------------------------- MODULE ReliableStream --------------------------
(***************************************************************************)
(* What a transport promises an application: on each channel the receiver  *)
(* gets what the sender wrote, in order, each piece once, with no gap.     *)
(* Nothing is said of when, or whether, a piece arrives.                   *)
(***************************************************************************)
EXTENDS Sequences, SequencesExt, Naturals

CONSTANTS Channels, Pieces

VARIABLES sent, received

svars == <<sent, received>>

Init ==
  /\ sent = [ch \in Channels |-> <<>>]
  /\ received = [ch \in Channels |-> <<>>]

(* One write may add several pieces, and one read return several.          *)
Write(ch) ==
  /\ sent'[ch] \in Seq(Pieces)
  /\ IsStrictPrefix(sent[ch], sent'[ch])
  /\ sent' = [sent EXCEPT ![ch] = sent'[ch]]
  /\ UNCHANGED received

Deliver(ch, n) ==
  /\ n \in Len(received[ch]) + 1 .. Len(sent[ch])
  /\ received' = [received EXCEPT ![ch] = SubSeq(sent[ch], 1, n)]
  /\ UNCHANGED sent

Next == \E ch \in Channels : Write(ch) \/ \E n \in 1 .. Len(sent[ch]) : Deliver(ch, n)

Spec == Init /\ [][Next]_svars
=============================================================================
