----------------------------- MODULE GMKeyUpdate ----------------------------
(***************************************************************************)
(* Two endpoints of a GM QUIC connection exchange 1-RTT packets, each with *)
(* its own gmUpdatableAEAD, over a network that may lose, delay, reorder   *)
(* and duplicate packets.  Sending is KeyPhase followed by Seal, as the    *)
(* packet packer does; receiving is DecryptHeader, Open and the handling   *)
(* of the ACK frame, as the packet unpacker and Conn.handleAckFrame do.    *)
(***************************************************************************)
EXTENDS Integers

(***************************************************************************)
(* The 1-RTT AEAD with QUIC key update of the GM fork                      *)
(* (quic-go/internal/handshake/gm_updatable.go, type gmUpdatableAEAD), as  *)
(* operators from the receiver's fields to their next values.              *)
(*                                                                         *)
(* Key material is abstracted to its generation: generation g is the g-th  *)
(* QUICKeyUpdate of the handshake's secret.  sendKM and rcvKM always are    *)
(* of the same generation, gen; nextSendSecret and nextRcvSecret are the   *)
(* seeds of gen + 1.  The AEAD opens a packet iff the keys are of the       *)
(* generation it was sealed under and the header is the one it was sealed  *)
(* with.  The code itself never sees gen, only the bit keyPhase.           *)
(***************************************************************************)
CONSTANTS FirstInterval,   \* gmFirstKeyUpdateInterval
          Interval,        \* keyUpdateInterval.Load()
          Retention,       \* 3 * gmApproximatePTO, in ticks
          InvalidLimit     \* invalidPacketLimit

ASSUME AEADAssumption == /\ FirstInterval \in Nat \ {0}
                         /\ Interval \in Nat \ {0}
                         /\ Retention \in Nat \ {0}
                         /\ InvalidLimit \in Nat \ {0}

NoPN == -1          \* protocol.InvalidPacketNumber
NoKey == -1         \* a nil *gmKeyMaterial
NoDeadline == -1    \* prevRcvKMExpiry == 0
KeyPhaseZero == 0
KeyPhaseOne == 1

PN == Nat \cup {NoPN}

AEADState ==
    [gen : Nat, prev : Nat \cup {NoKey}, expiry : Nat \cup {NoDeadline},
     keyPhase : {KeyPhaseZero, KeyPhaseOne},
     largestAcked : PN, firstSent : PN, firstRcvd : PN, highestRcvdPN : PN,
     numSent : Nat, numRcvd : Nat, invalidPacketCount : Nat,
     handshakeConfirmed : BOOLEAN]

newGMUpdatableAEAD ==
    [gen |-> 0, prev |-> NoKey, expiry |-> NoDeadline,
     keyPhase |-> KeyPhaseZero,
     largestAcked |-> NoPN, firstSent |-> NoPN, firstRcvd |-> NoPN,
     highestRcvdPN |-> NoPN,
     numSent |-> 0, numRcvd |-> 0, invalidPacketCount |-> 0,
     handshakeConfirmed |-> FALSE]

(* The packet counters are only compared with 0 and with the intervals, so *)
(* they saturate at the larger interval.                                   *)
CounterCap == IF FirstInterval > Interval THEN FirstInterval ELSE Interval
Count(n) == IF n < CounterCap THEN n + 1 ELSE n

(* Mutants: the bit is incremented instead of toggled; firstSent survives. *)
rollKeysIncrement(u) ==
    [u EXCEPT !.prev = u.gen, !.gen = u.gen + 1, !.keyPhase = @ + 1,
              !.firstSent = NoPN, !.firstRcvd = NoPN,
              !.numSent = 0, !.numRcvd = 0]
rollKeysKeepFirstSent(u) ==
    [u EXCEPT !.prev = u.gen, !.gen = u.gen + 1, !.keyPhase = 1 - @,
              !.firstRcvd = NoPN, !.numSent = 0, !.numRcvd = 0]

(* rollKeys: prevRcvKMExpiry is left as it is.                             *)
rollKeys(u) ==
    [u EXCEPT !.prev = u.gen,
              !.gen = u.gen + 1,
              !.keyPhase = IF u.keyPhase = KeyPhaseZero THEN KeyPhaseOne
                                                        ELSE KeyPhaseZero,
              !.firstSent = NoPN,
              !.firstRcvd = NoPN,
              !.numSent = 0,
              !.numRcvd = 0]

(* Mutant: no ACK is asked for in any phase.                               *)
updateAllowedWithoutAck(u) == u.handshakeConfirmed

updateAllowed(u) ==
    /\ u.handshakeConfirmed
    /\ \/ u.keyPhase = KeyPhaseZero
       \/ /\ u.firstSent # NoPN
          /\ u.largestAcked # NoPN
          /\ u.largestAcked >= u.firstSent

shouldInitiateKeyUpdate(u) ==
    /\ updateAllowed(u)
    /\ \/ /\ u.keyPhase = KeyPhaseZero
          /\ u.numRcvd >= FirstInterval \/ u.numSent >= FirstInterval
       \/ u.numRcvd >= Interval
       \/ u.numSent >= Interval

(* The state KeyPhase() leaves behind; the bit it returns is its keyPhase. *)
KeyPhase(u) == IF shouldInitiateKeyUpdate(u) THEN rollKeys(u) ELSE u

Seal(u, pn) ==
    [u EXCEPT !.numSent = Count(@),
              !.firstSent = IF @ = NoPN THEN pn ELSE @]

startKeyDropTimer(u) == [u EXCEPT !.expiry = Retention]

(* The deadline counts down to 0, where rcvTime.After(prevRcvKMExpiry).    *)
Elapse(u) == [u EXCEPT !.expiry = IF @ > 0 THEN @ - 1 ELSE @]

dropExpired(u) ==
    IF u.prev # NoKey /\ u.expiry = 0
    THEN [u EXCEPT !.prev = NoKey, !.expiry = NoDeadline]
    ELSE u

sawPN(u, pn) == [u EXCEPT !.highestRcvdPN = IF pn > @ THEN pn ELSE @]

decryptionFailed(u) ==
    LET n == u.invalidPacketCount + 1
    IN  [aead |-> [u EXCEPT !.invalidPacketCount = n],
         res |-> IF n >= InvalidLimit THEN "AEADLimitReached"
                                      ELSE "DecryptionFailed"]

opened(u) == [aead |-> u, res |-> "ok"]

(* Open for a packet with header fields kp and pn; sealedGen is the        *)
(* generation of the keys under which header and payload authenticate.     *)
openOtherPhase(u, pn, sealedGen) ==
    IF /\ u.keyPhase # KeyPhaseZero
       /\ u.firstRcvd = NoPN \/ pn < u.firstRcvd
    THEN IF u.prev = NoKey THEN [aead |-> u, res |-> "KeysDropped"]
         ELSE IF sealedGen = u.prev THEN opened(u)
         ELSE decryptionFailed(u)
    ELSE IF sealedGen # u.gen + 1 THEN decryptionFailed(u)
    ELSE IF u.keyPhase # KeyPhaseZero /\ u.firstSent = NoPN
         THEN [aead |-> u, res |-> "KeyUpdateError"]
    ELSE opened(startKeyDropTimer(
                  sawPN([rollKeys(u) EXCEPT !.firstRcvd = pn], pn)))

openSamePhase(u, pn, sealedGen) ==
    IF sealedGen = u.gen \/ (u.prev # NoKey /\ sealedGen = u.prev)
    THEN LET counted == [u EXCEPT !.numRcvd = Count(@)]
             timed == IF u.firstRcvd = NoPN /\ u.keyPhase # KeyPhaseZero
                      THEN startKeyDropTimer(counted) ELSE counted
         IN  opened(sawPN([timed EXCEPT !.firstRcvd = IF @ = NoPN THEN pn ELSE @],
                          pn))
    ELSE decryptionFailed(u)

Open(u, kp, pn, sealedGen) ==
    LET v == dropExpired(u)
    IN  IF kp # v.keyPhase THEN openOtherPhase(v, pn, sealedGen)
                           ELSE openSamePhase(v, pn, sealedGen)

(* Mutant: the ACK of any packet asks for a packet of the current phase.   *)
ackWithoutUpdateOfAny(u, pn) == u.firstSent # NoPN /\ u.numRcvd = 0

(* SetLargestAcked refuses the ACK of a current-phase packet by a peer     *)
(* from which nothing arrived under the current keys.                      *)
ackWithoutUpdate(u, pn) ==
    u.firstSent # NoPN /\ pn >= u.firstSent /\ u.numRcvd = 0
SetLargestAcked(u, pn) == [u EXCEPT !.largestAcked = pn]

SetHandshakeConfirmed(u) == [u EXCEPT !.handshakeConfirmed = TRUE]

-----------------------------------------------------------------------------
CONSTANTS
    MaxPN,          \* bound: packet numbers are below MaxPN
    Budget,         \* bound: endpoint e sends packets 0 .. Budget[e] - 1
    MaskedHeaders   \* TRUE: the header goes through packetUnpacker and is
                    \* unmasked with rcvKM.hp, whose key is of generation gen;
                    \* FALSE: kp and pn are handed to Open in the clear, as
                    \* openPacket of gm_updatable_test.go does

VARIABLES aead,         \* the gmUpdatableAEAD of each endpoint
          status,       \* "open", or the error that closed the connection
          nextPN,       \* the next packet number to send
          largestRcvd,  \* the largest packet number in the ACK it would send
          net           \* every packet ever sealed

vars == <<aead, status, nextPN, largestRcvd, net>>

Endpoint == {"client", "server"}
ASSUME NetAssumption == /\ MaxPN \in Nat
                        /\ Budget \in [Endpoint -> 0 .. MaxPN]
                        /\ MaskedHeaders \in BOOLEAN

Peer(e) == IF e = "client" THEN "server" ELSE "client"

CloseReason == {"KeyUpdateError", "AEADLimitReached", "AckError"}

Packet == [from : Endpoint, pn : Nat, gen : Nat,
           kp : {KeyPhaseZero, KeyPhaseOne}, ack : PN]

TypeOK == /\ aead \in [Endpoint -> AEADState]
          /\ status \in [Endpoint -> {"open"} \cup CloseReason]
          /\ nextPN \in [Endpoint -> Nat]
          /\ largestRcvd \in [Endpoint -> PN]
          /\ net \in SUBSET Packet

Init == /\ aead = [e \in Endpoint |-> newGMUpdatableAEAD]
        /\ status = [e \in Endpoint |-> "open"]
        /\ nextPN = [e \in Endpoint |-> 0]
        /\ largestRcvd = [e \in Endpoint |-> NoPN]
        /\ net = {}

(* The server confirms when its handshake completes, the client on the     *)
(* server's HANDSHAKE_DONE (or on a 1-RTT ACK: see HandleAck).             *)
Confirm(e) ==
    /\ status[e] = "open"
    /\ ~aead[e].handshakeConfirmed
    /\ e = "client" => aead["server"].handshakeConfirmed
    /\ aead' = [aead EXCEPT ![e] = SetHandshakeConfirmed(@)]
    /\ UNCHANGED <<status, nextPN, largestRcvd, net>>

(* The packer asks for the key phase, which may start a key update, then   *)
(* seals the packet; it may put an ACK frame in it.                        *)
Send(e, ack) ==
    LET u == KeyPhase(aead[e])
    IN  /\ status[e] = "open"
        /\ nextPN[e] < Budget[e]
        /\ ack \in {NoPN, largestRcvd[e]}
        /\ aead' = [aead EXCEPT ![e] = Seal(u, nextPN[e])]
        /\ nextPN' = [nextPN EXCEPT ![e] = @ + 1]
        /\ net' = net \cup {[from |-> e, pn |-> nextPN[e], gen |-> u.gen,
                             kp |-> u.keyPhase, ack |-> ack]}
        /\ UNCHANGED <<status, largestRcvd>>

(* What header unmasking yields.  A mask key of another generation garbles *)
(* phase bit and packet number; these are AEAD additional data, so unless  *)
(* the two masks happen to agree the packet authenticates under no key.    *)
(* Open compares a garbled number with firstRcvd only: 0 and MaxPN are on  *)
(* the two sides of it.                                                    *)
NoGen == -2
Unmask(u, pkt) ==
    {[kp |-> pkt.kp, pn |-> pkt.pn, gen |-> pkt.gen]} \cup
    IF MaskedHeaders /\ pkt.gen # u.gen
    THEN [kp : {KeyPhaseZero, KeyPhaseOne}, pn : {0, MaxPN}, gen : {NoGen}]
    ELSE {}

(* Conn.handleAckFrame on a frame that acknowledges something new.         *)
HandleAck(e, u, ack) ==
    LET v == IF e = "client" THEN SetHandshakeConfirmed(u) ELSE u
    IN  IF ack = NoPN \/ ack < u.largestAcked
        THEN [aead |-> u, res |-> "open"]
        ELSE IF ackWithoutUpdate(v, ack)
        THEN [aead |-> v, res |-> "AckError"]
        ELSE [aead |-> SetLargestAcked(v, ack), res |-> "open"]

Deliver(e, pkt) ==
    /\ status[e] = "open"
    /\ pkt.from = Peer(e)
    /\ \E hdr \in Unmask(aead[e], pkt) :
         LET o == Open(aead[e], hdr.kp, hdr.pn, hdr.gen)
             h == HandleAck(e, o.aead, pkt.ack)
         IN  \/ /\ o.res = "ok"
                /\ aead' = [aead EXCEPT ![e] = h.aead]
                /\ status' = [status EXCEPT ![e] = h.res]
                /\ largestRcvd' = [largestRcvd EXCEPT
                                     ![e] = IF pkt.pn > @ THEN pkt.pn ELSE @]
             \/ /\ o.res # "ok"
                /\ aead' = [aead EXCEPT ![e] = o.aead]
                /\ status' = [status EXCEPT
                                ![e] = IF o.res \in CloseReason THEN o.res ELSE @]
                /\ UNCHANGED largestRcvd
    /\ UNCHANGED <<nextPN, net>>

Tick ==
    /\ \E e \in Endpoint : aead[e].expiry > 0
    /\ aead' = [e \in Endpoint |-> Elapse(aead[e])]
    /\ UNCHANGED <<status, nextPN, largestRcvd, net>>

Next == \/ \E e \in Endpoint : Confirm(e)
        \/ \E e \in Endpoint : \E ack \in {NoPN, largestRcvd[e]} : Send(e, ack)
        \/ \E e \in Endpoint : \E pkt \in net : Deliver(e, pkt)
        \/ Tick

Spec == Init /\ [][Next]_vars

(***************************************************************************)
(* Properties.                                                             *)
(***************************************************************************)

(* The generations of the two endpoints never differ by more than two:     *)
(* updateAllowed demands an ACK on key phase one, so every second update   *)
(* waits for the peer.                                                     *)
GapAtMostTwo ==
    \A e \in Endpoint : aead[e].gen <= aead[Peer(e)].gen + 2

(* Two endpoints that both run this code never close the connection with   *)
(* "keys updated too quickly" (Open) nor with "received ACK for key phase  *)
(* but peer didn't update keys" (SetLargestAcked), whatever the network    *)
(* loses, repeats or reorders.                                             *)
NoFalseUpdateError ==
    \A e \in Endpoint : status[e] \notin {"KeyUpdateError", "AckError"}

(* An ACK of a packet of the current phase is a proof: if largestAcked has *)
(* reached firstSent, which is what updateAllowed looks at, the peer has   *)
(* rolled to these keys, and something it sent under them was opened.      *)
AckProvesPeerUpdated ==
    \A e \in Endpoint :
        LET u == aead[e]
        IN  /\ u.firstSent # NoPN
            /\ u.largestAcked >= u.firstSent
            => /\ aead[Peer(e)].gen >= u.gen
               /\ u.numRcvd > 0

(* Until one of the endpoints is past its first update, every authentic    *)
(* packet opens or arrives after its keys were dropped: none is counted    *)
(* towards the AEAD integrity limit.                                       *)
FirstUpdateLosesNothing ==
    (\A e \in Endpoint : aead[e].gen <= 1)
        => \A e \in Endpoint : aead[e].invalidPacketCount = 0

(* "the peer must hold proof that we can use the current phase (an ACK of  *)
(* a packet we sent under it) before updating again": an endpoint is never *)
(* two updates ahead of its peer.                                          *)
GapAtMostOne ==
    \A e \in Endpoint : aead[e].gen <= aead[Peer(e)].gen + 1

(* "a late packet still protected with the previous phase must decrypt via *)
(* prevRcvKM": a packet of the previous generation whose keys are retained *)
(* is never counted as a decryption failure.                               *)
LatePacketOpens ==
    [][\A e \in Endpoint : \A pkt \in net :
          (Deliver(e, pkt) /\ pkt.gen = dropExpired(aead[e]).prev)
              => aead'[e].invalidPacketCount = aead[e].invalidPacketCount]_vars

(***************************************************************************)
(* The inductive invariant behind the theorems of GMKeyUpdateProofs.       *)
(***************************************************************************)
Sent(e) == {p \in net : p.from = e}
Odd(n) == n % 2 = 1

(* The phase bit is the parity of the generation, on the wire as well.     *)
PhaseIsParity ==
    /\ \A e \in Endpoint : /\ aead[e].keyPhase = aead[e].gen % 2
                           /\ aead[e].prev < aead[e].gen
                           /\ aead[e].largestAcked < nextPN[e]
    /\ \A p \in net : p.gen <= aead[p.from].gen /\ p.pn < nextPN[p.from]

(* firstSent separates the packets of the current generation.              *)
FirstSentSplits ==
    \A e \in Endpoint : \A p \in Sent(e) :
        /\ aead[e].firstSent = NoPN => p.gen < aead[e].gen
        /\ (aead[e].firstSent # NoPN /\ p.pn >= aead[e].firstSent)
              => p.gen = aead[e].gen

(* Whoever acknowledges a packet had its keys at that time.                *)
Acknowledgeable(e, n, g) ==
    n # NoPN => \E p \in Sent(Peer(e)) : p.pn = n /\ p.gen <= g
AcksAreHonest ==
    /\ \A e \in Endpoint : Acknowledgeable(e, largestRcvd[e], aead[e].gen)
    /\ \A q \in net : Acknowledgeable(q.from, q.ack, q.gen)
    /\ \A e \in Endpoint :
          aead[e].largestAcked # NoPN =>
              \E q \in Sent(Peer(e)) : q.ack = aead[e].largestAcked
    /\ \A e \in Endpoint :
          (aead[e].firstSent # NoPN /\ aead[e].largestAcked >= aead[e].firstSent)
              => aead[e].numRcvd > 0

(* An even generation was entered with a proof or behind the peer.         *)
GapByParity ==
    \A e \in Endpoint :
        /\ aead[e].gen <= aead[Peer(e)].gen + 2
        /\ ~Odd(aead[e].gen) => aead[e].gen <= aead[Peer(e)].gen + 1
        /\ (Odd(aead[e].gen) /\ aead[e].gen < aead[Peer(e)].gen)
              => aead[e].firstSent # NoPN

IInv == /\ TypeOK
        /\ PhaseIsParity
        /\ FirstSentSplits
        /\ AcksAreHonest
        /\ GapByParity
        /\ NoFalseUpdateError
=============================================================================
