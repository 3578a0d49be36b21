-------------------------- MODULE GMKeyUpdateProofs --------------------------
(***************************************************************************)
(* Theorems about GMKeyUpdate, for every choice of the intervals, of the    *)
(* retention time, of the integrity limit and of the number of packets,    *)
(* with and without header protection.                                     *)
(***************************************************************************)
EXTENDS GMKeyUpdate, TLAPS

(* Peers are endpoints, and peering is an involution.                      *)
LEMMA PeerFacts ==
    \A e \in Endpoint : /\ Peer(e) \in Endpoint
                        /\ Peer(e) # e
                        /\ Peer(Peer(e)) = e
                        /\ \A x \in Endpoint : x = e \/ x = Peer(e)
  BY DEF Endpoint, Peer

(* A counter that counts is a positive natural number.                     *)
LEMMA CountFacts ==
    ASSUME NEW n \in Nat
    PROVE  Count(n) \in Nat /\ Count(n) > 0
  BY AEADAssumption DEF Count, CounterCap

(* The types of the fields, as integers where the provers compare them.    *)
LEMMA FieldTypes ==
    ASSUME NEW u \in AEADState
    PROVE  /\ u.gen \in Nat
           /\ u.prev \in Int
           /\ u.prev # NoKey => u.prev \in Nat
           /\ u.expiry \in Int
           /\ u.keyPhase \in {0, 1}
           /\ u.largestAcked \in PN
           /\ u.largestAcked \in Int
           /\ u.firstSent \in Int
           /\ u.firstRcvd \in PN
           /\ u.highestRcvdPN \in PN
           /\ u.numSent \in Nat
           /\ u.numRcvd \in Nat
           /\ u.invalidPacketCount \in Nat
  BY DEF AEADState, PN, NoPN, NoKey, NoDeadline, KeyPhaseZero, KeyPhaseOne

(* Packet numbers and the absent packet number are integers.               *)
LEMMA PNFacts == NoPN \in PN /\ Nat \subseteq PN /\ PN \subseteq Int
  BY DEF PN, NoPN

(* The phase bit is the parity of the generation.                          *)
Phased(u) == u.keyPhase = u.gen % 2 /\ u.prev < u.gen

(* v continues the phase of u.                                             *)
Kept(u, v) ==
    /\ v \in AEADState
    /\ v.gen = u.gen
    /\ v.keyPhase = u.keyPhase
    /\ v.prev \in {u.prev, NoKey}
    /\ v.firstSent = u.firstSent
    /\ v.largestAcked = u.largestAcked
    /\ v.numRcvd >= u.numRcvd

(* v is the phase after u, with nothing sent in it.                        *)
Rolled(u, v) ==
    /\ v \in AEADState
    /\ v.gen = u.gen + 1
    /\ Phased(v)
    /\ v.firstSent = NoPN
    /\ v.largestAcked = u.largestAcked

(* rollKeys assigns values of the right types.                             *)
LEMMA RollType ==
    ASSUME NEW u \in AEADState, NEW g \in Nat, NEW h \in Nat,
           NEW k \in {KeyPhaseZero, KeyPhaseOne}, NEW n \in PN
    PROVE  [u EXCEPT !.prev = g, !.gen = h, !.keyPhase = k, !.firstSent = n,
                     !.firstRcvd = n, !.numSent = 0, !.numRcvd = 0] \in AEADState
  BY Zenon DEF AEADState

(* rollKeys starts the next phase.                                         *)
LEMMA RollFacts ==
    ASSUME NEW u \in AEADState, Phased(u)
    PROVE  Rolled(u, rollKeys(u))
  <1> DEFINE k == IF u.keyPhase = KeyPhaseZero THEN KeyPhaseOne ELSE KeyPhaseZero
  <1>1. k \in {KeyPhaseZero, KeyPhaseOne}
    OBVIOUS
  <1>2. u.gen \in Nat /\ u.gen + 1 \in Nat
    BY FieldTypes
  <1>3. rollKeys(u) \in AEADState
    BY <1>1, <1>2, PNFacts, RollType, Zenon DEF rollKeys
  <1>4. /\ rollKeys(u).gen = u.gen + 1
        /\ rollKeys(u).keyPhase = k
        /\ rollKeys(u).prev = u.gen
        /\ rollKeys(u).firstSent = NoPN
        /\ rollKeys(u).largestAcked = u.largestAcked
    BY DEF rollKeys, AEADState
  <1>5. k = (u.gen + 1) % 2
    BY <1>2 DEF Phased, KeyPhaseZero, KeyPhaseOne
  <1>6. QED
    BY <1>2, <1>3, <1>4, <1>5 DEF Rolled, Phased

(* The bookkeeping of Open that leaves the phase alone.                    *)
LEMMA BookkeepingFacts ==
    ASSUME NEW u \in AEADState, NEW pn \in Nat
    PROVE  /\ Kept(u, dropExpired(u))
           /\ Kept(u, startKeyDropTimer(u))
           /\ Kept(u, sawPN(u, pn))
           /\ Kept(u, [u EXCEPT !.firstRcvd = pn])
           /\ Kept(u, [u EXCEPT !.numRcvd = Count(@)])
           /\ Kept(u, decryptionFailed(u).aead)
           /\ Kept(u, u)
  <1> USE FieldTypes, PNFacts
  <1>0. Kept(u, [u EXCEPT !.prev = NoKey, !.expiry = NoDeadline])
    <2> DEFINE d == [u EXCEPT !.prev = NoKey, !.expiry = NoDeadline]
    <2>1. d \in AEADState
      BY Zenon DEF AEADState
    <2>2. /\ d.gen = u.gen
          /\ d.keyPhase = u.keyPhase
          /\ d.prev = NoKey
          /\ d.firstSent = u.firstSent
          /\ d.largestAcked = u.largestAcked
          /\ d.numRcvd = u.numRcvd
      BY DEF AEADState
    <2> HIDE DEF d
    <2>3. Kept(u, d)
      BY <2>1, <2>2 DEF Kept
    <2>4. QED
      BY <2>3 DEF d
  <1>10. Kept(u, u)
    BY DEF Kept
  <1>1. Kept(u, dropExpired(u))
    BY <1>0, <1>10 DEF dropExpired
  <1>2. Kept(u, startKeyDropTimer(u))
    BY AEADAssumption DEF Kept, startKeyDropTimer, AEADState
  <1>3. \A n \in PN : Kept(u, [u EXCEPT !.highestRcvdPN = n])
    BY DEF Kept, AEADState
  <1>4. Kept(u, sawPN(u, pn))
    BY <1>3 DEF sawPN
  <1>5. \A n \in PN : Kept(u, [u EXCEPT !.firstRcvd = n])
    BY DEF Kept, AEADState
  <1>6. Count(u.numRcvd) \in Nat /\ Count(u.numRcvd) >= u.numRcvd
    BY CountFacts DEF Count
  <1>7. \A n \in Nat : n >= u.numRcvd => Kept(u, [u EXCEPT !.numRcvd = n])
    BY DEF Kept, AEADState
  <1>8. \A n \in Nat : Kept(u, [u EXCEPT !.invalidPacketCount = n])
    BY DEF Kept, AEADState
  <1>9. Kept(u, decryptionFailed(u).aead)
    BY <1>8 DEF decryptionFailed
  <1>11. QED
    BY <1>1, <1>2, <1>4, <1>5, <1>6, <1>7, <1>9, <1>10

(* Continuing a phase composes.                                            *)
LEMMA KeptTransitive ==
    ASSUME NEW u \in AEADState, NEW v \in AEADState, NEW w,
           Kept(u, v), Kept(v, w)
    PROVE  Kept(u, w)
  BY FieldTypes DEF Kept

(* What continues a new phase is that new phase.                           *)
LEMMA RolledKept ==
    ASSUME NEW u \in AEADState, NEW v \in AEADState, NEW w,
           Rolled(u, v), Kept(v, w)
    PROVE  Rolled(u, w)
  BY FieldTypes DEF Kept, Rolled, Phased, NoKey

(* Open either continues the phase or, on a packet of the next generation, *)
(* starts the next one.  A packet that opens without an update is of the   *)
(* current generation, and counted, or older; "keys updated too quickly"   *)
(* takes a packet of the next generation on an odd one.                    *)
OpenOutcome(u, o, g) ==
    \/ /\ Kept(u, o.aead)
       /\ \/ o.res = "ok" /\ g \in 0 .. u.gen /\ (g = u.gen => o.aead.numRcvd > 0)
          \/ o.res \in {"DecryptionFailed", "KeysDropped", "AEADLimitReached"}
          \/ /\ o.res = "KeyUpdateError"
             /\ g = u.gen + 1 /\ Odd(u.gen) /\ u.firstSent = NoPN
    \/ Rolled(u, o.aead) /\ o.res = "ok" /\ g = u.gen + 1

(* A failed decryption continues the phase.                                *)
LEMMA FailedOutcome ==
    ASSUME NEW u \in AEADState, NEW g \in Int
    PROVE  OpenOutcome(u, decryptionFailed(u), g)
  BY BookkeepingFacts, Zenon DEF OpenOutcome, decryptionFailed

(* Open on a packet of the other phase bit.                                *)
LEMMA OtherPhaseFacts ==
    ASSUME NEW u \in AEADState, Phased(u), NEW pn \in Nat, NEW g \in Int
    PROVE  OpenOutcome(u, openOtherPhase(u, pn, g), g)
  <1> DEFINE o == openOtherPhase(u, pn, g)
             late == /\ u.keyPhase # KeyPhaseZero
                     /\ u.firstRcvd = NoPN \/ pn < u.firstRcvd
             w == [rollKeys(u) EXCEPT !.firstRcvd = pn]
  <1> USE FieldTypes
  <1>1. CASE late
    <2>1. CASE u.prev = NoKey
      BY <1>1, <2>1, BookkeepingFacts, Zenon DEF openOtherPhase, OpenOutcome
    <2>2. CASE u.prev # NoKey /\ g = u.prev
      <3>1. o = opened(u)
        BY <1>1, <2>2 DEF openOtherPhase
      <3>2. g \in 0 .. u.gen /\ g # u.gen
        BY <2>2 DEF Phased
      <3>3. Kept(u, u)
        BY BookkeepingFacts, Zenon
      <3>4. QED
        BY <3>1, <3>2, <3>3 DEF OpenOutcome, opened
    <2>3. CASE u.prev # NoKey /\ g # u.prev
      BY <1>1, <2>3, FailedOutcome DEF openOtherPhase
    <2>4. QED
      BY <2>1, <2>2, <2>3
  <1>2. CASE ~late /\ g # u.gen + 1
    BY <1>2, FailedOutcome DEF openOtherPhase
  <1>3. CASE ~late /\ g = u.gen + 1 /\ u.keyPhase # KeyPhaseZero /\ u.firstSent = NoPN
    <2>1. Odd(u.gen)
      BY <1>3 DEF Phased, Odd, KeyPhaseZero
    <2>2. QED
      BY <1>3, <2>1, BookkeepingFacts, Zenon DEF openOtherPhase, OpenOutcome
  <1>4. CASE ~late /\ g = u.gen + 1 /\ ~(u.keyPhase # KeyPhaseZero /\ u.firstSent = NoPN)
    <2>1. Rolled(u, rollKeys(u)) /\ rollKeys(u) \in AEADState
      BY RollFacts DEF Rolled
    <2>2. Kept(rollKeys(u), w) /\ w \in AEADState
      BY <2>1, BookkeepingFacts, Zenon DEF Kept
    <2> HIDE DEF w
    <2>3. Kept(w, sawPN(w, pn)) /\ sawPN(w, pn) \in AEADState
      BY <2>2, BookkeepingFacts, Zenon DEF Kept
    <2>7. Kept(sawPN(w, pn), startKeyDropTimer(sawPN(w, pn)))
      BY <2>3, BookkeepingFacts, Zenon
    <2>4. Rolled(u, startKeyDropTimer(sawPN(w, pn)))
      BY <2>1, <2>2, <2>3, <2>7, RolledKept
    <2> USE DEF w
    <2>5. o = opened(startKeyDropTimer(sawPN(w, pn)))
      BY <1>4 DEF openOtherPhase
    <2>6. QED
      BY <1>4, <2>4, <2>5 DEF OpenOutcome, opened
  <1>5. QED
    BY <1>1, <1>2, <1>3, <1>4

(* Open on a packet of the current phase bit.                              *)
LEMMA SamePhaseFacts ==
    ASSUME NEW u \in AEADState, Phased(u), NEW pn \in Nat, NEW g \in Int
    PROVE  OpenOutcome(u, openSamePhase(u, pn, g), g)
  <1> DEFINE counted == [u EXCEPT !.numRcvd = Count(@)]
             timed == IF u.firstRcvd = NoPN /\ u.keyPhase # KeyPhaseZero
                      THEN startKeyDropTimer(counted) ELSE counted
             first == [timed EXCEPT !.firstRcvd = IF @ = NoPN THEN pn ELSE @]
             opens == g = u.gen \/ (u.prev # NoKey /\ g = u.prev)
  <1> USE FieldTypes
  <1>1. Kept(u, counted) /\ counted \in AEADState /\ counted.numRcvd > 0
    <2>1. counted.numRcvd = Count(u.numRcvd)
      BY DEF AEADState
    <2>2. QED
      BY <2>1, BookkeepingFacts, CountFacts, Zenon DEF Kept
  <1> HIDE DEF counted
  <1>2. Kept(counted, timed) /\ timed \in AEADState
    BY <1>1, BookkeepingFacts, Zenon DEF Kept
  <1> HIDE DEF timed
  <1>3. Kept(timed, first) /\ first \in AEADState
    <2>1. \A n \in PN : Kept(timed, [timed EXCEPT !.firstRcvd = n])
      BY <1>2 DEF Kept, AEADState
    <2>2. QED
      BY <1>2, <2>1, PNFacts DEF Kept
  <1> HIDE DEF first
  <1>4. Kept(first, sawPN(first, pn)) /\ sawPN(first, pn) \in AEADState
    BY <1>3, BookkeepingFacts, Zenon DEF Kept
  <1>5. Kept(u, sawPN(first, pn)) /\ sawPN(first, pn).numRcvd > 0
    <2>1. Kept(counted, sawPN(first, pn))
      BY <1>1, <1>2, <1>3, <1>4, KeptTransitive
    <2>2. QED
      BY <1>1, <1>4, <2>1, KeptTransitive DEF Kept
  <1>6. CASE opens
    <2>1. openSamePhase(u, pn, g) = opened(sawPN(first, pn))
      BY <1>6 DEF openSamePhase, counted, timed, first
    <2>2. g \in 0 .. u.gen
      BY <1>6 DEF Phased
    <2>3. QED
      BY <1>5, <2>1, <2>2 DEF OpenOutcome, opened
  <1>7. CASE ~opens
    BY <1>7, FailedOutcome DEF openSamePhase
  <1>8. QED
    BY <1>6, <1>7

(* Open: the summary every later step rests on.                            *)
LEMMA OpenFacts ==
    ASSUME NEW u \in AEADState, Phased(u), NEW kp, NEW pn \in Nat, NEW g \in Int
    PROVE  OpenOutcome(u, Open(u, kp, pn, g), g)
  <1> DEFINE v == dropExpired(u)
             o == Open(u, kp, pn, g)
  <1>1. Kept(u, v) /\ v \in AEADState
    BY BookkeepingFacts, Zenon DEF Kept
  <1>2. Phased(v)
    BY <1>1, FieldTypes DEF Kept, Phased, NoKey
  <1> HIDE DEF v
  <1>3. OpenOutcome(v, o, g)
    BY <1>1, <1>2, OtherPhaseFacts, SamePhaseFacts DEF Open, v
  <1> HIDE DEF o
  <1>4. Kept(v, o.aead) => Kept(u, o.aead)
    BY <1>1, KeptTransitive
  <1>5. Rolled(v, o.aead) => Rolled(u, o.aead)
    BY <1>1 DEF Rolled, Kept
  <1>6. v.gen = u.gen /\ v.firstSent = u.firstSent
    BY <1>1 DEF Kept
  <1>7. OpenOutcome(u, o, g)
    BY <1>3, <1>4, <1>5, <1>6 DEF OpenOutcome
  <1>8. QED
    BY <1>7 DEF o

(* Parity of the generation, as the phase bit sees it.                     *)
LEMMA Parity ==
    ASSUME NEW n \in Nat
    PROVE  /\ Odd(n + 1) <=> ~Odd(n)
           /\ Odd(n + 2) <=> Odd(n)
           /\ n % 2 = 0 <=> ~Odd(n)
  BY DEF Odd

(* The inductive invariant holds initially.                                *)
LEMMA InitIInv == Init => IInv
  <1> SUFFICES ASSUME Init PROVE IInv
    OBVIOUS
  <1>1. newGMUpdatableAEAD \in AEADState
    BY DEF newGMUpdatableAEAD, AEADState, PN, NoPN, NoKey, NoDeadline,
           KeyPhaseZero, KeyPhaseOne
  <1>2. \A e \in Endpoint : /\ aead[e] = newGMUpdatableAEAD
                            /\ Peer(e) \in Endpoint
                            /\ status[e] = "open"
                            /\ nextPN[e] = 0
                            /\ largestRcvd[e] = NoPN
    BY PeerFacts DEF Init
  <1>3. /\ newGMUpdatableAEAD.gen = 0
        /\ newGMUpdatableAEAD.keyPhase = 0
        /\ newGMUpdatableAEAD.prev = -1
        /\ newGMUpdatableAEAD.firstSent = NoPN
        /\ newGMUpdatableAEAD.largestAcked = NoPN
    BY DEF newGMUpdatableAEAD, KeyPhaseZero, NoKey
  <1>4. TypeOK
    BY <1>1, PNFacts DEF Init, TypeOK, Packet
  <1>5. PhaseIsParity
    BY <1>2, <1>3 DEF Init, PhaseIsParity, NoPN
  <1>6. FirstSentSplits /\ AcksAreHonest
    BY <1>2, <1>3 DEF Init, FirstSentSplits, AcksAreHonest, Sent, Acknowledgeable
  <1>7. GapByParity
    BY <1>2, <1>3 DEF GapByParity, Odd
  <1>8. NoFalseUpdateError
    BY <1>2 DEF NoFalseUpdateError
  <1>9. QED
    BY <1>4, <1>5, <1>6, <1>7, <1>8 DEF IInv

(* What TypeOK says about one endpoint and about one packet.               *)
LEMMA EndpointTypes ==
    ASSUME TypeOK, NEW e \in Endpoint
    PROVE  /\ aead[e] \in AEADState
           /\ aead[e].gen \in Nat
           /\ aead[e].firstSent \in Int
           /\ aead[e].largestAcked \in Int
           /\ nextPN[e] \in Nat
           /\ largestRcvd[e] \in PN
           /\ \A p \in net : /\ p.from \in Endpoint
                             /\ p.pn \in Nat /\ p.gen \in Nat
                             /\ p.ack \in PN /\ p.ack \in Int
  BY FieldTypes, PNFacts, Zenon DEF TypeOK, Packet

(* The ACK that lets an odd phase end was sent under its keys or later.    *)
LEMMA AckedByPeer ==
    ASSUME IInv, NEW e \in Endpoint,
           aead[e].firstSent # NoPN,
           aead[e].largestAcked >= aead[e].firstSent
    PROVE  /\ \E q \in Sent(Peer(e)) : q.gen >= aead[e].gen
           /\ aead[Peer(e)].gen >= aead[e].gen
           /\ aead[e].numRcvd > 0
  <1> USE EndpointTypes, PeerFacts DEF IInv
  <1>1. aead[e].firstSent >= 0
    BY FieldTypes DEF AEADState, PN, NoPN
  <1>2. aead[e].largestAcked # NoPN
    BY <1>1 DEF NoPN
  <1>3. PICK q \in Sent(Peer(e)) : q.ack = aead[e].largestAcked
    BY <1>2 DEF AcksAreHonest
  <1>4. q \in net /\ q.from = Peer(e)
    BY DEF Sent
  <1>5. PICK p \in Sent(e) : p.pn = q.ack /\ p.gen <= q.gen
    BY <1>2, <1>3, <1>4 DEF AcksAreHonest, Acknowledgeable
  <1>6. p.gen = aead[e].gen
    BY <1>3, <1>5 DEF FirstSentSplits
  <1>7. q.gen <= aead[Peer(e)].gen
    BY <1>4 DEF PhaseIsParity
  <1>8. p.gen \in Nat /\ q.gen \in Nat
    BY <1>4 DEF Sent
  <1>9. aead[e].numRcvd > 0
    BY DEF AcksAreHonest
  <1>10. QED
    BY <1>3, <1>5, <1>6, <1>7, <1>8, <1>9

(***************************************************************************)
(* Steps that send nothing: e continues its phase or follows its peer, and *)
(* its largestAcked is an ACK the peer sent.                               *)
(***************************************************************************)
SilentChange(e, u, v) ==
    /\ v \in AEADState
    /\ Phased(v)
    /\ \/ v.gen = u.gen /\ v.firstSent = u.firstSent
       \/ v.gen = u.gen + 1 /\ v.firstSent = NoPN /\ v.gen <= aead[Peer(e)].gen
    /\ \/ v.largestAcked = NoPN
       \/ \E q \in Sent(Peer(e)) : q.ack = v.largestAcked
    /\ (v.firstSent # NoPN /\ v.largestAcked >= v.firstSent) => v.numRcvd > 0

(* Silent steps preserve the inductive invariant.                          *)
LEMMA SilentStep ==
    ASSUME IInv,
           aead' \in [Endpoint -> AEADState],
           \A e \in Endpoint : SilentChange(e, aead[e], aead'[e]),
           net' = net, nextPN' = nextPN,
           status' \in [Endpoint -> {"open"} \cup CloseReason],
           NoFalseUpdateError',
           largestRcvd' \in [Endpoint -> PN],
           \A e \in Endpoint :
               Acknowledgeable(e, largestRcvd'[e], aead'[e].gen)
    PROVE  IInv'
  <1> USE PeerFacts DEF IInv
  <1>1. TypeOK'
    BY DEF TypeOK
  <1>2. \A e \in Endpoint : /\ aead'[e].gen \in Nat
                            /\ aead[e].gen \in Nat
                            /\ aead[e].firstSent \in Int
                            /\ aead'[e].gen >= aead[e].gen
                            /\ aead'[e].largestAcked \in Int
                            /\ nextPN[e] \in Nat
    <2> SUFFICES ASSUME NEW e \in Endpoint
                 PROVE  /\ aead'[e].gen \in Nat
                        /\ aead[e].gen \in Nat
                        /\ aead[e].firstSent \in Int
                        /\ aead'[e].gen >= aead[e].gen
                        /\ aead'[e].largestAcked \in Int
                        /\ nextPN[e] \in Nat
      OBVIOUS
    <2>1. aead[e].gen \in Nat /\ aead[e].firstSent \in Int /\ nextPN[e] \in Nat
      BY EndpointTypes
    <2>2. aead'[e].gen \in Nat /\ aead'[e].largestAcked \in Int
      BY FieldTypes
    <2>3. aead'[e].gen = aead[e].gen \/ aead'[e].gen = aead[e].gen + 1
      BY DEF SilentChange
    <2>4. QED
      BY <2>1, <2>2, <2>3
  <1>3. \A p \in net : /\ p.from \in Endpoint
                       /\ p.pn \in Nat /\ p.gen \in Nat
    BY DEF TypeOK, Packet
  <1>4. PhaseIsParity'
    <2>1. ASSUME NEW e \in Endpoint
          PROVE  aead'[e].largestAcked < nextPN[e]
      <3>1. CASE aead'[e].largestAcked = NoPN
        BY <1>2, <3>1 DEF NoPN
      <3>2. CASE aead'[e].largestAcked # NoPN
        <4>1. PICK q \in Sent(Peer(e)) : q.ack = aead'[e].largestAcked
          BY <3>2 DEF SilentChange
        <4>2. PICK p \in Sent(e) : p.pn = aead'[e].largestAcked
          BY <3>2, <4>1 DEF AcksAreHonest, Acknowledgeable, Sent
        <4>3. QED
          BY <4>2 DEF PhaseIsParity, Sent
      <3>3. QED
        BY <3>1, <3>2
    <2>2. \A p \in net : p.gen <= aead'[p.from].gen /\ p.pn < nextPN[p.from]
      BY <1>2, <1>3 DEF PhaseIsParity
    <2>3. QED
      BY <2>1, <2>2 DEF PhaseIsParity, SilentChange, Phased
  <1>5. FirstSentSplits'
    <2> SUFFICES ASSUME NEW e \in Endpoint, NEW p \in Sent(e)
                 PROVE  /\ aead'[e].firstSent = NoPN => p.gen < aead'[e].gen
                        /\ (aead'[e].firstSent # NoPN /\ p.pn >= aead'[e].firstSent)
                              => p.gen = aead'[e].gen
      BY DEF FirstSentSplits, Sent
    <2>1. p \in net /\ p.from = e /\ p.gen \in Nat
      BY <1>3 DEF Sent
    <2>2. CASE aead'[e].gen = aead[e].gen /\ aead'[e].firstSent = aead[e].firstSent
      BY <2>2 DEF FirstSentSplits
    <2>3. CASE aead'[e].gen = aead[e].gen + 1 /\ aead'[e].firstSent = NoPN
      BY <2>1, <2>3, <1>2 DEF PhaseIsParity
    <2>4. QED
      BY <2>2, <2>3 DEF SilentChange
  <1>6. AcksAreHonest'
    <2>1. \A e \in Endpoint : Acknowledgeable(e, largestRcvd[e], aead[e].gen)'
      BY DEF Acknowledgeable, Sent
    <2>2. \A q \in net' : Acknowledgeable(q.from, q.ack, q.gen)'
      BY DEF AcksAreHonest, Acknowledgeable, Sent
    <2>3. \A e \in Endpoint :
             aead'[e].largestAcked # NoPN =>
                 \E q \in Sent(Peer(e))' : q.ack = aead'[e].largestAcked
      BY DEF SilentChange, Sent
    <2>4. QED
      BY <2>1, <2>2, <2>3 DEF AcksAreHonest, SilentChange
  <1>7. GapByParity'
    <2> SUFFICES ASSUME NEW e \in Endpoint
                 PROVE  /\ aead'[e].gen <= aead'[Peer(e)].gen + 2
                        /\ ~Odd(aead'[e].gen) => aead'[e].gen <= aead'[Peer(e)].gen + 1
                        /\ (Odd(aead'[e].gen) /\ aead'[e].gen < aead'[Peer(e)].gen)
                              => aead'[e].firstSent # NoPN
      BY DEF GapByParity
    <2> DEFINE g == aead[e].gen
               h == aead[Peer(e)].gen
               G == aead'[e].gen
               H == aead'[Peer(e)].gen
    <2>1. g \in Nat /\ h \in Nat /\ G \in Nat /\ H \in Nat /\ G >= g /\ H >= h
      BY <1>2
    <2>2. /\ g <= h + 2 /\ (~Odd(g) => g <= h + 1)
          /\ h <= g + 2 /\ (~Odd(h) => h <= g + 1)
          /\ (Odd(g) /\ g < h) => aead[e].firstSent # NoPN
      BY DEF GapByParity
    <2>3. H = h \/ (H = h + 1 /\ H <= g)
      BY DEF SilentChange
    <2>4. CASE G = g /\ aead'[e].firstSent = aead[e].firstSent
      BY <2>1, <2>2, <2>3, <2>4
    <2>5. CASE G = g + 1 /\ aead'[e].firstSent = NoPN /\ G <= h
      <3>1. G <= H
        BY <2>1, <2>5
      <3>2. H = h
        BY <2>1, <2>3, <2>5
      <3>3. ~(Odd(G) /\ G < h)
        <4> SUFFICES ASSUME Odd(G), G < h PROVE FALSE
          OBVIOUS
        <4>1. h = g + 2
          BY <2>1, <2>2, <2>5
        <4>2. ~Odd(g) /\ ~Odd(h)
          BY <4>1, <2>1, <2>5, Parity
        <4>3. QED
          BY <4>1, <4>2, <2>1, <2>2
      <3>4. QED
        BY <3>1, <3>2, <3>3, <2>1
    <2>6. QED
      BY <2>4, <2>5 DEF SilentChange
  <1>8. QED
    BY <1>1, <1>4, <1>5, <1>6, <1>7 DEF IInv

(* KeyPhase continues the phase or, where an update is allowed, starts the *)
(* next one; Seal makes firstSent valid.                                   *)
LEMMA SealFacts ==
    ASSUME NEW w \in AEADState, Phased(w), NEW n \in Nat
    PROVE  LET u == KeyPhase(w)
               v == Seal(u, n)
           IN  /\ u = w \/ (updateAllowed(w) /\ Rolled(w, u))
               /\ v \in AEADState
               /\ Phased(v)
               /\ v.gen = u.gen
               /\ v.largestAcked = w.largestAcked
               /\ v.numRcvd = u.numRcvd
               /\ u.keyPhase \in {KeyPhaseZero, KeyPhaseOne}
               /\ v.firstSent = IF u.firstSent = NoPN THEN n ELSE u.firstSent
  <1> DEFINE u == KeyPhase(w)
             v == Seal(u, n)
             m == Count(u.numSent)
             f == IF u.firstSent = NoPN THEN n ELSE u.firstSent
  <1>1. u = w \/ (updateAllowed(w) /\ Rolled(w, u))
    BY RollFacts DEF KeyPhase, shouldInitiateKeyUpdate
  <1>2. u \in AEADState /\ Phased(u) /\ u.largestAcked = w.largestAcked
    BY <1>1 DEF Rolled
  <1> HIDE DEF u
  <1>3. m \in Nat /\ f \in PN
    BY <1>2, FieldTypes, CountFacts, PNFacts DEF AEADState
  <1>4. v = [u EXCEPT !.numSent = m, !.firstSent = f]
    BY <1>2 DEF Seal
  <1> HIDE DEF m, f, v
  <1>5. v \in AEADState
    BY <1>2, <1>3, <1>4, Zenon DEF AEADState
  <1>6. /\ v.gen = u.gen
        /\ v.prev = u.prev
        /\ v.keyPhase = u.keyPhase
        /\ v.largestAcked = u.largestAcked
        /\ v.numRcvd = u.numRcvd
        /\ v.firstSent = f
    BY <1>2, <1>4 DEF AEADState
  <1>7. u.keyPhase \in {KeyPhaseZero, KeyPhaseOne}
    BY <1>2 DEF AEADState
  <1>8. QED
    BY <1>1, <1>2, <1>5, <1>6, <1>7 DEF u, v, f, Phased

(* Sending preserves the inductive invariant.                              *)
LEMMA SendStep ==
    ASSUME IInv, NEW e \in Endpoint, NEW ack, Send(e, ack)
    PROVE  IInv'
  <1> DEFINE w == aead[e]
             u == KeyPhase(w)
             n == nextPN[e]
             v == Seal(u, n)
             new == [from |-> e, pn |-> n, gen |-> u.gen,
                     kp |-> u.keyPhase, ack |-> ack]
  <1> USE DEF IInv
  <1>1. /\ w \in AEADState /\ Phased(w) /\ n \in Nat
        /\ w.gen \in Nat /\ w.firstSent \in Int /\ w.largestAcked \in Int
    BY EndpointTypes DEF PhaseIsParity, Phased
  <1>2. /\ aead' = [aead EXCEPT ![e] = v]
        /\ net' = net \cup {new}
        /\ nextPN' = [nextPN EXCEPT ![e] = n + 1]
        /\ status' = status /\ largestRcvd' = largestRcvd
        /\ ack \in {NoPN, largestRcvd[e]}
    BY DEF Send
  <1>3. /\ u = w \/ (updateAllowed(w) /\ Rolled(w, u))
        /\ v \in AEADState /\ Phased(v)
        /\ v.gen = u.gen
        /\ v.largestAcked = w.largestAcked
        /\ v.numRcvd = u.numRcvd
        /\ u.keyPhase \in {KeyPhaseZero, KeyPhaseOne}
        /\ v.firstSent = IF u.firstSent = NoPN THEN n ELSE u.firstSent
    BY <1>1, SealFacts
  <1> HIDE DEF u, v
  <1>4. /\ \/ u = w
           \/ updateAllowed(w) /\ u.gen = w.gen + 1 /\ u.firstSent = NoPN
        /\ u.gen \in Nat /\ u.gen >= w.gen
    BY <1>1, <1>3, FieldTypes DEF Rolled
  <1>5. /\ aead'[e] = v /\ nextPN'[e] = n + 1
        /\ Peer(e) \in Endpoint /\ Peer(e) # e /\ Peer(Peer(e)) = e
        /\ aead'[Peer(e)] = aead[Peer(e)] /\ nextPN'[Peer(e)] = nextPN[Peer(e)]
        /\ \A x \in Endpoint : x = e \/ x = Peer(e)
    BY <1>2, PeerFacts DEF TypeOK
  <1>6. ack \in PN
    BY <1>2, EndpointTypes, PNFacts
  <1>7. new \in Packet
    BY <1>1, <1>3, <1>4, <1>6 DEF Packet
  <1>8. TypeOK'
    BY <1>1, <1>2, <1>3, <1>7 DEF TypeOK
  <1>9. \A p \in net : /\ p.from \in Endpoint /\ p.pn \in Nat /\ p.gen \in Nat
                       /\ p.gen <= aead[p.from].gen /\ p.pn < nextPN[p.from]
    BY DEF TypeOK, Packet, PhaseIsParity
  <1>10. new.from = e /\ new.pn = n /\ new.gen = u.gen /\ new.ack = ack
    OBVIOUS
  <1> HIDE DEF new
  <1>11. PhaseIsParity'
    <2>1. \A x \in Endpoint : /\ aead'[x].keyPhase = aead'[x].gen % 2
                              /\ aead'[x].prev < aead'[x].gen
                              /\ aead'[x].largestAcked < nextPN'[x]
      BY <1>1, <1>3, <1>5 DEF PhaseIsParity, Phased
    <2>2. ASSUME NEW p \in net
          PROVE  p.gen <= aead'[p.from].gen /\ p.pn < nextPN'[p.from]
      BY <1>1, <1>3, <1>4, <1>5, <1>9
    <2>3. new.gen <= aead'[new.from].gen /\ new.pn < nextPN'[new.from]
      BY <1>1, <1>3, <1>4, <1>5, <1>10
    <2>4. QED
      BY <1>2, <2>1, <2>2, <2>3 DEF PhaseIsParity
  <1>12. FirstSentSplits'
    <2>1. ASSUME NEW p \in net, p.from = e
          PROVE  /\ v.firstSent # NoPN
                 /\ p.pn >= v.firstSent => p.gen = v.gen
      <3>1. p.pn < n /\ p.pn \in Nat
        BY <2>1, <1>9
      <3>2. CASE u.firstSent = NoPN
        BY <1>1, <1>3, <3>1, <3>2 DEF NoPN
      <3>3. CASE u.firstSent # NoPN
        BY <1>3, <1>4, <2>1, <3>3 DEF FirstSentSplits, Sent
      <3>4. QED
        BY <3>2, <3>3
    <2>2. v.firstSent # NoPN
      BY <1>1, <1>3 DEF NoPN
    <2>3. \A p \in Sent(e)' : p = new \/ (p \in net /\ p.from = e)
      BY <1>2 DEF Sent
    <2>4. \A p \in Sent(Peer(e))' : p \in Sent(Peer(e))
      BY <1>2, <1>5, <1>10 DEF Sent
    <2>5. QED
      BY <1>3, <1>5, <1>10, <2>1, <2>2, <2>3, <2>4 DEF FirstSentSplits
  <1>13. AcksAreHonest'
    <2>1. \A x \in Endpoint : Sent(x) \subseteq Sent(x)'
      BY <1>2 DEF Sent
    <2>3. \A x \in Endpoint : Acknowledgeable(x, largestRcvd[x], aead[x].gen)'
      <3> SUFFICES ASSUME NEW x \in Endpoint
                   PROVE  Acknowledgeable(x, largestRcvd[x], aead[x].gen)'
        OBVIOUS
      <3>1. /\ aead[x].gen \in Nat /\ aead'[x].gen \in Nat
            /\ aead[x].gen <= aead'[x].gen
        BY <1>1, <1>3, <1>4, <1>5, EndpointTypes
      <3>2. Acknowledgeable(x, largestRcvd[x], aead[x].gen)
        BY DEF AcksAreHonest
      <3>3. largestRcvd[x] # NoPN =>
              \E p \in Sent(Peer(x)) : p.pn = largestRcvd[x] /\ p.gen <= aead'[x].gen
        BY <3>1, <3>2, <1>9, PeerFacts DEF Acknowledgeable, Sent
      <3>4. QED
        BY <1>2, <2>1, <3>3, PeerFacts DEF Acknowledgeable
    <2>4. \A q \in net' : Acknowledgeable(q.from, q.ack, q.gen)'
      <3>1. ASSUME NEW q \in net
            PROVE  q.ack # NoPN =>
                     \E p \in net' : /\ p.from = Peer(q.from)
                                     /\ p.pn = q.ack /\ p.gen <= q.gen
        BY <1>2, <1>9, PeerFacts DEF AcksAreHonest, Acknowledgeable, Sent
      <3>2. new.ack # NoPN =>
              \E p \in net' : /\ p.from = Peer(new.from)
                              /\ p.pn = new.ack /\ p.gen <= new.gen
        <4>1. Acknowledgeable(e, largestRcvd[e], aead[e].gen)
          BY DEF AcksAreHonest
        <4>2. new.ack # NoPN =>
                \E p \in Sent(Peer(e)) : p.pn = new.ack /\ p.gen <= new.gen
          BY <4>1, <1>1, <1>2, <1>4, <1>9, <1>10 DEF Acknowledgeable, Sent
        <4>3. QED
          BY <4>2, <1>2, <1>10 DEF Sent
      <3>3. QED
        BY <1>2, <3>1, <3>2 DEF Acknowledgeable, Sent
    <2>5. \A x \in Endpoint :
             aead'[x].largestAcked # NoPN =>
                 \E q \in Sent(Peer(x))' : q.ack = aead'[x].largestAcked
      BY <1>3, <1>5, <2>1 DEF AcksAreHonest
    <2>6. (v.firstSent # NoPN /\ v.largestAcked >= v.firstSent) => v.numRcvd > 0
      <3>1. CASE u.firstSent = NoPN
        BY <3>1, <1>1, <1>3 DEF PhaseIsParity
      <3>2. CASE u.firstSent # NoPN
        BY <3>2, <1>3, <1>4 DEF AcksAreHonest
      <3>3. QED
        BY <3>1, <3>2
    <2>7. QED
      BY <2>3, <2>4, <2>5, <2>6, <1>5 DEF AcksAreHonest
  <1>14. GapByParity'
    <2> DEFINE g == w.gen
               h == aead[Peer(e)].gen
               G == v.gen
    <2>1. g \in Nat /\ h \in Nat /\ G \in Nat
      BY <1>1, <1>3, <1>4, <1>5, EndpointTypes
    <2>2. /\ g <= h + 2 /\ (~Odd(g) => g <= h + 1)
          /\ h <= g + 2 /\ (~Odd(h) => h <= g + 1)
          /\ (Odd(h) /\ h < g) => aead[Peer(e)].firstSent # NoPN
      BY <1>5 DEF GapByParity
    <2>3. v.firstSent # NoPN
      BY <1>1, <1>3 DEF NoPN
    <2>4. CASE u = w
      BY <2>1, <2>2, <2>3, <2>4, <1>3, <1>5 DEF GapByParity
    <2>5. CASE updateAllowed(w) /\ G = g + 1
      <3>1. \/ ~Odd(g)
            \/ h >= g /\ \E q \in Sent(Peer(e)) : q.gen >= g
        <4>1. CASE w.keyPhase = KeyPhaseZero
          BY <4>1, <1>1, Parity DEF Phased, KeyPhaseZero
        <4>2. CASE w.firstSent # NoPN /\ w.largestAcked >= w.firstSent
          BY <4>2, AckedByPeer
        <4>3. QED
          BY <2>5, <4>1, <4>2 DEF updateAllowed
      <3>2. (Odd(h) /\ h = g) => aead[Peer(e)].firstSent # NoPN
        BY <3>1, <2>1, <1>5, <1>9 DEF FirstSentSplits, Sent
      <3>3. Odd(G) <=> ~Odd(g)
        BY <2>1, <2>5, Parity
      <3>4. G <= h + 2 /\ (~Odd(G) => G <= h + 1)
        BY <3>1, <3>3, <2>1, <2>2, <2>5
      <3>5. /\ h <= G + 2 /\ (~Odd(h) => h <= G + 1)
            /\ (Odd(h) /\ h < G) => aead[Peer(e)].firstSent # NoPN
        BY <3>2, <2>1, <2>2, <2>5
      <3>6. QED
        BY <3>4, <3>5, <2>3, <1>5 DEF GapByParity
    <2>6. QED
      BY <2>4, <2>5, <1>3, <1>4
  <1>15. NoFalseUpdateError'
    BY <1>2 DEF NoFalseUpdateError
  <1>16. QED
    BY <1>8, <1>11, <1>12, <1>13, <1>14, <1>15 DEF IInv

(* An authentic packet is opened only by an endpoint whose keys reach it,  *)
(* and a garbled one by none; the ACK it carries is then handled without   *)
(* an error.                                                               *)
LEMMA DeliverStep ==
    ASSUME IInv, NEW e \in Endpoint, NEW pkt \in net, Deliver(e, pkt)
    PROVE  IInv'
  <1> DEFINE u == aead[e]
             f == Peer(e)
  <1> USE DEF IInv
  <1>1. PICK hdr \in Unmask(u, pkt) :
          LET o == Open(u, hdr.kp, hdr.pn, hdr.gen)
              h == HandleAck(e, o.aead, pkt.ack)
          IN  \/ /\ o.res = "ok"
                 /\ aead' = [aead EXCEPT ![e] = h.aead]
                 /\ status' = [status EXCEPT ![e] = h.res]
                 /\ largestRcvd' = [largestRcvd EXCEPT
                                      ![e] = IF pkt.pn > @ THEN pkt.pn ELSE @]
              \/ /\ o.res # "ok"
                 /\ aead' = [aead EXCEPT ![e] = o.aead]
                 /\ status' = [status EXCEPT
                                 ![e] = IF o.res \in CloseReason THEN o.res ELSE @]
                 /\ UNCHANGED largestRcvd
    BY DEF Deliver
  <1> DEFINE o == Open(u, hdr.kp, hdr.pn, hdr.gen)
             g == hdr.gen
  <1>2. /\ pkt.from = f /\ f \in Endpoint /\ f # e /\ Peer(f) = e
        /\ status[e] = "open" /\ nextPN' = nextPN /\ net' = net
        /\ \A x \in Endpoint : x = e \/ x = f
    BY PeerFacts DEF Deliver
  <1>3. /\ u \in AEADState /\ Phased(u) /\ u.gen \in Nat
        /\ u.firstSent \in Int /\ u.largestAcked \in Int
        /\ pkt.pn \in Nat /\ pkt.gen \in Nat /\ pkt.ack \in PN /\ pkt.ack \in Int
        /\ pkt.gen <= aead[f].gen /\ pkt \in Sent(f)
    BY <1>2, EndpointTypes DEF PhaseIsParity, Phased, Sent
  <1>4. hdr.pn \in Nat /\ g \in Int /\ (g = pkt.gen \/ g = NoGen)
    BY <1>3, NetAssumption DEF Unmask, NoGen
  <1>5. OpenOutcome(u, o, g)
    BY <1>3, <1>4, OpenFacts
  <1> HIDE DEF o, g
  <1>6. g = u.gen + 1 => g = pkt.gen /\ u.gen < aead[f].gen
    BY <1>2, <1>3, <1>4, EndpointTypes DEF NoGen
  <1>7. o.res # "KeyUpdateError"
    BY <1>2, <1>3, <1>5, <1>6 DEF OpenOutcome, GapByParity, Rolled
  <1>8. SilentChange(e, u, o.aead)
    <2>1. o.aead.largestAcked = u.largestAcked
      BY <1>5 DEF OpenOutcome, Kept, Rolled
    <2>2. \/ o.aead.largestAcked = NoPN
          \/ \E q \in Sent(f) : q.ack = o.aead.largestAcked
      BY <2>1 DEF AcksAreHonest
    <2>3. CASE Kept(u, o.aead)
      <3>1. Phased(o.aead) /\ o.aead.numRcvd \in Nat /\ u.numRcvd \in Nat
        BY <2>3, <1>3, FieldTypes DEF Kept, Phased, NoKey
      <3>2. (u.firstSent # NoPN /\ u.largestAcked >= u.firstSent) => u.numRcvd > 0
        BY DEF AcksAreHonest
      <3>3. QED
        BY <2>2, <2>3, <3>1, <3>2 DEF SilentChange, Kept
    <2>4. CASE Rolled(u, o.aead) /\ g = u.gen + 1
      <3>1. o.aead.gen <= aead[f].gen
        BY <2>4, <1>3, <1>6 DEF Rolled
      <3>2. QED
        BY <2>2, <2>4, <3>1 DEF SilentChange, Rolled
    <2>5. QED
      BY <1>5, <2>3, <2>4 DEF OpenOutcome
  <1>9. \A x \in Endpoint : SilentChange(x, aead[x], aead[x])
    <2> SUFFICES ASSUME NEW x \in Endpoint PROVE SilentChange(x, aead[x], aead[x])
      OBVIOUS
    <2>1. aead[x] \in AEADState /\ Phased(aead[x])
      BY EndpointTypes DEF PhaseIsParity, Phased
    <2>2. QED
      BY <2>1 DEF AcksAreHonest, SilentChange
  <1>10. CASE o.res = "ok"
    <2> DEFINE h == HandleAck(e, o.aead, pkt.ack)
    <2>1. /\ aead' = [aead EXCEPT ![e] = h.aead]
          /\ status' = [status EXCEPT ![e] = h.res]
          /\ largestRcvd' = [largestRcvd EXCEPT
                               ![e] = IF pkt.pn > @ THEN pkt.pn ELSE @]
      BY <1>1, <1>10 DEF o
    <2>2. pkt.gen <= o.aead.gen
      BY <1>3, <1>4, <1>5, <1>10 DEF OpenOutcome, Kept, Rolled, NoGen
    <2>3. ~ackWithoutUpdate(o.aead, pkt.ack)
      <3> SUFFICES ASSUME ackWithoutUpdate(o.aead, pkt.ack) PROVE FALSE
        OBVIOUS
      <3>1. /\ o.aead.firstSent # NoPN /\ o.aead.numRcvd = 0
            /\ pkt.ack >= o.aead.firstSent
        BY DEF ackWithoutUpdate
      <3>2. /\ Kept(u, o.aead) /\ g # u.gen /\ g \in 0 .. u.gen
            /\ u.firstSent = o.aead.firstSent
        BY <3>1, <1>5, <1>10 DEF OpenOutcome, Rolled, Kept
      <3>3. pkt.gen < u.gen /\ u.firstSent >= 0
        <4>1. u.firstSent \in PN
          BY <1>3 DEF AEADState
        <4>2. QED
          BY <4>1, <3>1, <3>2, <1>3, <1>4 DEF NoGen, PN
      <3>7. pkt.ack # NoPN
        BY <3>1, <3>2, <3>3, <1>3 DEF NoPN
      <3>8. Acknowledgeable(f, pkt.ack, pkt.gen)
        BY <1>2 DEF AcksAreHonest
      <3>4. PICK p \in Sent(e) : p.pn = pkt.ack /\ p.gen <= pkt.gen
        BY <1>2, <3>7, <3>8 DEF Acknowledgeable
      <3>5. p.gen = u.gen
        BY <3>1, <3>2, <3>4 DEF FirstSentSplits
      <3>6. QED
        BY <3>3, <3>4, <3>5, <1>3
    <2>4. /\ SilentChange(e, u, h.aead)
          /\ h.res = "open"
          /\ h.aead.gen = o.aead.gen
      <3> DEFINE c == IF e = "client" THEN SetHandshakeConfirmed(o.aead) ELSE o.aead
      <3>1. o.aead \in AEADState
        BY <1>8 DEF SilentChange
      <3>2. /\ c \in AEADState
            /\ c.gen = o.aead.gen /\ c.keyPhase = o.aead.keyPhase
            /\ c.prev = o.aead.prev /\ c.firstSent = o.aead.firstSent
            /\ c.largestAcked = o.aead.largestAcked /\ c.numRcvd = o.aead.numRcvd
        BY <3>1, Zenon DEF SetHandshakeConfirmed, AEADState
      <3> HIDE DEF c
      <3>3. CASE pkt.ack = NoPN \/ pkt.ack < o.aead.largestAcked
        BY <1>8, <3>3 DEF HandleAck
      <3>4. CASE ~(pkt.ack = NoPN \/ pkt.ack < o.aead.largestAcked)
        <4> DEFINE a == SetLargestAcked(c, pkt.ack)
        <4>1. ~ackWithoutUpdate(c, pkt.ack)
          BY <2>3, <3>2 DEF ackWithoutUpdate
        <4>2. h.aead = a /\ h.res = "open"
          BY <3>4, <4>1 DEF HandleAck, c
        <4>3. /\ a \in AEADState
              /\ a.gen = c.gen /\ a.keyPhase = c.keyPhase /\ a.prev = c.prev
              /\ a.firstSent = c.firstSent /\ a.numRcvd = c.numRcvd
              /\ a.largestAcked = pkt.ack
          BY <3>2, <1>3 DEF SetLargestAcked, AEADState
        <4> HIDE DEF a
        <4>4. (a.firstSent # NoPN /\ a.largestAcked >= a.firstSent) => a.numRcvd > 0
          BY <4>1, <4>3, <3>2, FieldTypes DEF ackWithoutUpdate
        <4>5. SilentChange(e, u, a)
          BY <1>3, <1>8, <3>2, <4>3, <4>4 DEF SilentChange, Phased
        <4>6. QED
          BY <3>2, <4>2, <4>3, <4>5
      <3>5. QED
        BY <3>3, <3>4
    <2> HIDE DEF h
    <2>5. /\ h.aead \in AEADState
          /\ h.aead.gen \in Nat /\ h.aead.gen >= u.gen /\ h.aead.gen >= pkt.gen
      BY <1>3, <2>2, <2>4, FieldTypes DEF SilentChange
    <2>6. /\ aead' \in [Endpoint -> AEADState]
          /\ \A x \in Endpoint : SilentChange(x, aead[x], aead'[x])
      BY <1>2, <1>9, <2>1, <2>4, <2>5 DEF TypeOK
    <2>7. /\ status' \in [Endpoint -> {"open"} \cup CloseReason]
          /\ NoFalseUpdateError'
      BY <1>2, <2>1, <2>4 DEF TypeOK, NoFalseUpdateError
    <2>8. largestRcvd' \in [Endpoint -> PN]
      BY <1>3, <2>1, PNFacts DEF TypeOK
    <2>9. \A x \in Endpoint : Acknowledgeable(x, largestRcvd'[x], aead'[x].gen)
      <3>1. Acknowledgeable(e, largestRcvd'[e], aead'[e].gen)
        <4>1. aead'[e] = h.aead
          BY <2>1 DEF TypeOK
        <4>2. largestRcvd'[e] \in {pkt.pn, largestRcvd[e]}
          BY <2>1 DEF TypeOK
        <4>3. Acknowledgeable(e, pkt.pn, h.aead.gen)
          BY <1>3, <2>5 DEF Acknowledgeable
        <4>4. Acknowledgeable(e, largestRcvd[e], h.aead.gen)
          BY <1>2, <1>3, <2>5, EndpointTypes DEF AcksAreHonest, Acknowledgeable, Sent
        <4>5. QED
          BY <4>1, <4>2, <4>3, <4>4
      <3>2. Acknowledgeable(f, largestRcvd'[f], aead'[f].gen)
        BY <1>2, <2>1 DEF TypeOK, AcksAreHonest
      <3>3. QED
        BY <1>2, <3>1, <3>2
    <2>10. QED
      BY <1>2, <2>6, <2>7, <2>8, <2>9, SilentStep
  <1>11. CASE o.res # "ok"
    <2>1. /\ aead' = [aead EXCEPT ![e] = o.aead]
          /\ status' = [status EXCEPT ![e] = IF o.res \in CloseReason THEN o.res ELSE @]
          /\ largestRcvd' = largestRcvd
      BY <1>1, <1>11 DEF o
    <2>2. o.res \in {"DecryptionFailed", "KeysDropped", "AEADLimitReached"}
      BY <1>5, <1>7, <1>11 DEF OpenOutcome
    <2>3. o.aead.gen \in Nat /\ o.aead \in AEADState /\ o.aead.gen >= u.gen
      BY <1>3, <1>8, FieldTypes DEF SilentChange
    <2>4. /\ aead' \in [Endpoint -> AEADState]
          /\ \A x \in Endpoint : SilentChange(x, aead[x], aead'[x])
      BY <1>2, <1>8, <1>9, <2>1, <2>3 DEF TypeOK
    <2>5. /\ status' \in [Endpoint -> {"open"} \cup CloseReason]
          /\ NoFalseUpdateError'
      BY <1>2, <2>1, <2>2 DEF TypeOK, NoFalseUpdateError, CloseReason
    <2>6. \A x \in Endpoint : Acknowledgeable(x, largestRcvd'[x], aead'[x].gen)
      <3>1. Acknowledgeable(e, largestRcvd[e], o.aead.gen)
        BY <1>2, <1>3, <2>3, EndpointTypes DEF AcksAreHonest, Acknowledgeable, Sent
      <3>2. QED
        BY <1>2, <2>1, <3>1 DEF TypeOK, AcksAreHonest
    <2>7. QED
      BY <1>2, <2>1, <2>4, <2>5, <2>6, SilentStep DEF TypeOK
  <1>12. QED
    BY <1>10, <1>11

(* Confirming the handshake and the passing of time are silent.            *)
LEMMA QuietStep ==
    ASSUME IInv,
           aead' \in [Endpoint -> AEADState],
           \A e \in Endpoint : Kept(aead[e], aead'[e]),
           UNCHANGED <<status, nextPN, largestRcvd, net>>
    PROVE  IInv'
  <1> USE DEF IInv
  <1>1. \A e \in Endpoint : SilentChange(e, aead[e], aead'[e])
    <2> SUFFICES ASSUME NEW e \in Endpoint PROVE SilentChange(e, aead[e], aead'[e])
      OBVIOUS
    <2>1. /\ aead[e].gen \in Nat /\ aead'[e] \in AEADState /\ Kept(aead[e], aead'[e])
          /\ aead'[e].numRcvd \in Nat /\ aead[e].numRcvd \in Nat
          /\ aead[e].prev \in Int
      BY EndpointTypes, FieldTypes
    <2>2. Phased(aead'[e])
      BY <2>1 DEF PhaseIsParity, Phased, Kept, NoKey
    <2>3. QED
      BY <2>1, <2>2 DEF AcksAreHonest, SilentChange, Kept
  <1>2. \A e \in Endpoint : Acknowledgeable(e, largestRcvd'[e], aead'[e].gen)
    BY DEF AcksAreHonest, Kept
  <1>3. QED
    BY <1>1, <1>2, SilentStep DEF TypeOK, NoFalseUpdateError

(* Every step preserves the inductive invariant.                           *)
LEMMA NextIInv == IInv /\ [Next]_vars => IInv'
  <1> SUFFICES ASSUME IInv, [Next]_vars PROVE IInv'
    OBVIOUS
  <1> USE EndpointTypes DEF IInv
  <1>1. \A e \in Endpoint : Kept(aead[e], aead[e])
    BY BookkeepingFacts, Zenon
  <1>2. ASSUME NEW e \in Endpoint, Confirm(e) PROVE IInv'
    <2>1. Kept(aead[e], SetHandshakeConfirmed(aead[e]))
      <3> DEFINE c == SetHandshakeConfirmed(aead[e])
      <3>1. /\ c \in AEADState
            /\ c.gen = aead[e].gen /\ c.keyPhase = aead[e].keyPhase
            /\ c.prev = aead[e].prev /\ c.firstSent = aead[e].firstSent
            /\ c.largestAcked = aead[e].largestAcked
            /\ c.numRcvd = aead[e].numRcvd
        BY Zenon DEF SetHandshakeConfirmed, AEADState
      <3> HIDE DEF c
      <3>2. Kept(aead[e], c)
        BY <3>1, FieldTypes DEF Kept
      <3>3. QED
        BY <3>2 DEF c
    <2>2. QED
      <3>1. /\ aead' = [aead EXCEPT ![e] = SetHandshakeConfirmed(aead[e])]
            /\ UNCHANGED <<status, nextPN, largestRcvd, net>>
        BY <1>2 DEF Confirm
      <3>2. \A x \in Endpoint : Kept(aead[x], aead'[x])
        BY <1>1, <2>1, <3>1 DEF TypeOK
      <3>3. aead' \in [Endpoint -> AEADState]
        BY <2>1, <3>1 DEF TypeOK, Kept
      <3>4. QED
        BY <3>1, <3>2, <3>3, QuietStep
  <1>3. ASSUME NEW e \in Endpoint, NEW ack, Send(e, ack) PROVE IInv'
    BY <1>3, SendStep
  <1>4. ASSUME NEW e \in Endpoint, NEW pkt \in net, Deliver(e, pkt) PROVE IInv'
    BY <1>4, DeliverStep
  <1>5. CASE Tick
    <2>1. \A e \in Endpoint : Kept(aead[e], Elapse(aead[e]))
      <3> SUFFICES ASSUME NEW e \in Endpoint PROVE Kept(aead[e], Elapse(aead[e]))
        OBVIOUS
      <3> DEFINE x == IF aead[e].expiry > 0 THEN aead[e].expiry - 1 ELSE aead[e].expiry
      <3>1. x \in Nat \cup {NoDeadline}
        BY FieldTypes DEF AEADState
      <3>2. \A d \in Nat \cup {NoDeadline} : Kept(aead[e], [aead[e] EXCEPT !.expiry = d])
        BY FieldTypes DEF Kept, AEADState
      <3>3. QED
        BY <3>1, <3>2 DEF Elapse
    <2>2. QED
      BY <1>5, <2>1, QuietStep DEF Tick, Kept
  <1>6. CASE UNCHANGED vars
    BY <1>1, <1>6, QuietStep DEF vars, TypeOK
  <1>7. QED
    BY <1>2, <1>3, <1>4, <1>5, <1>6 DEF Next

(* What the inductive invariant says is true of every behaviour.           *)
THEOREM Invariance == Spec => []IInv
  BY InitIInv, NextIInv, PTL DEF Spec

(* The fields of both endpoints and the packets stay well typed.           *)
THEOREM TypeCorrect == Spec => []TypeOK
  <1>1. IInv => TypeOK
    BY DEF IInv
  <1>2. QED
    BY <1>1, Invariance, PTL

(* Two endpoints are never more than two key updates apart, although       *)
(* updateAllowed asks for an ACK only in every second phase.               *)
THEOREM GapBound == Spec => []GapAtMostTwo
  <1>1. IInv => GapAtMostTwo
    BY DEF IInv, GapByParity, GapAtMostTwo
  <1>2. QED
    BY <1>1, Invariance, PTL

(* Neither of the two protocol errors of the key update is ever raised     *)
(* between endpoints that both run this code.                              *)
THEOREM NoFalseError == Spec => []NoFalseUpdateError
  <1>1. IInv => NoFalseUpdateError
    BY DEF IInv
  <1>2. QED
    BY <1>1, Invariance, PTL

(* The ACK test of updateAllowed is a sound proof that the peer has        *)
(* switched to the current keys.                                           *)
THEOREM AckIsProof == Spec => []AckProvesPeerUpdated
  <1>1. IInv => AckProvesPeerUpdated
    BY AckedByPeer DEF AckProvesPeerUpdated
  <1>2. QED
    BY <1>1, Invariance, PTL
==============================================================================
