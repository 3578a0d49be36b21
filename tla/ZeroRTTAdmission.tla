-------------------------- MODULE ZeroRTTAdmission --------------------------
(***************************************************************************)
(* How a GM QUIC server decides on a resumption and on its 0-RTT data: the *)
(* ticket is opened with the keys of the TicketKeyRotator, and the PSK in  *)
(* it is put to the AntiReplayCache.  Clients present any ticket they were *)
(* given at any time, any number of times and with any age.                *)
(*                                                                         *)
(* Both objects are guarded by a mutex that each call holds throughout, so *)
(* a call is one step.  A ClientHello makes two calls, one to each object. *)
(***************************************************************************)
EXTENDS Naturals, FiniteSets

(***************************************************************************)
(* The in-memory anti-replay cache for 0-RTT (quicgm/antireplay.go).       *)
(*                                                                         *)
(* A cache is [seen, byExpiry]: seen[d] is the expiry of digest d, 0 when  *)
(* the Go map has no entry (the value a lookup yields then), and byExpiry  *)
(* is the set of <<expiry, digest>> pairs in the expiry buckets.  A digest *)
(* is the SM3 hash of a PSK and never empty; an age comes from an unsigned *)
(* difference and is never negative.                                       *)
(***************************************************************************)
CONSTANTS Digests,     \* digests of the PSKs of tickets
          Window,      \* how long a digest is remembered
          MaxAge,      \* the ticket age from which an attempt is refused
          MaxEntries   \* the bound on live entries

ASSUME CacheAssumption ==
  /\ IsFiniteSet(Digests)
  /\ Window \in Nat \ {0} /\ MaxAge \in Nat \ {0} /\ MaxEntries \in Nat \ {0}

newCache == [seen |-> [d \in Digests |-> 0], byExpiry |-> {}]

live(c) == {d \in Digests : c.seen[d] # 0}

(* Lazy eviction of the buckets whose deadline has passed.                 *)
evictedIndexOnly(c, t) ==
  [seen |-> c.seen, byExpiry |-> {b \in c.byExpiry : b[1] > t}]

evicted(c, t) ==
  [seen |-> [d \in Digests |-> IF c.seen[d] <= t /\ (\E b \in c.byExpiry : b[1] <= t /\ b[2] = d)
                               THEN 0 ELSE c.seen[d]],
   byExpiry |-> {b \in c.byExpiry : b[1] > t}]

(* No live entry for the digest, and room for one.                         *)
freshUnlessFull(c, d, t) == Cardinality(live(c)) < MaxEntries
freshOneMore(c, d, t) == c.seen[d] <= t /\ Cardinality(live(c)) <= MaxEntries

fresh(c, d, t) == c.seen[d] <= t /\ Cardinality(live(c)) < MaxEntries

remember(c, d, t) ==
  [seen |-> [c.seen EXCEPT ![d] = t + Window],
   byExpiry |-> c.byExpiry \cup {<<t + Window, d>>}]

(* Check: its answer, and the cache it leaves.                             *)
Accepts(c, d, age, t) == age < MaxAge /\ fresh(evicted(c, t), d, t)

AfterCheck(c, d, age, t) ==
  IF age >= MaxAge THEN c
  ELSE IF fresh(evicted(c, t), d, t) THEN remember(evicted(c, t), d, t) ELSE evicted(c, t)

-----------------------------------------------------------------------------
(***************************************************************************)
(* The rotating session ticket keys of a listener (quicgm/pskstore.go).    *)
(* Random keys do not repeat: they are numbered 1, 2, ... in the order in  *)
(* which they are drawn, and 0 stands for a nil key.                       *)
(***************************************************************************)
CONSTANT Period  \* rotationPeriod

ASSUME RotatorAssumption == Period \in Nat \ {0}

newTicketKeyRotator(t) == [current |-> 1, previous |-> 0, rotatedAt |-> t]

rotateLockedForgetting(r, t) ==
  [current |-> r.current + 1, previous |-> 0, rotatedAt |-> t]

rotateLocked(r, t) ==
  [current |-> r.current + 1, previous |-> r.current, rotatedAt |-> t]

(* keys: it rotates first when the period has passed, unless the random    *)
(* source fails; activeKeys is what it returns.                            *)
rotationDue(r, t) == t - r.rotatedAt >= Period

afterKeys(r, t, randOK) == IF rotationDue(r, t) /\ randOK THEN rotateLocked(r, t) ELSE r

activeKeys(r) == {r.current, r.previous} \ {0}

-----------------------------------------------------------------------------
CONSTANT MaxTime  \* bound on the clock

ASSUME TimeAssumption == MaxTime \in Nat

VARIABLES now,         \* the clock, which does not go back
          rotator,     \* the listener's ticketKeyRotator
          cache,       \* ServerConfig.AntiReplay
          tickets,     \* the tickets issued
          opened,      \* PSKs whose ticket was opened by some connection
          acceptedAt   \* when 0-RTT with a PSK was last accepted, 0 for never

vars == <<now, rotator, cache, tickets, opened, acceptedAt>>

Ticket == [psk : Digests, key : Nat, at : Nat]

Init ==
  /\ now = 1
  /\ rotator = newTicketKeyRotator(1)
  /\ cache = newCache
  /\ tickets = {} /\ opened = {}
  /\ acceptedAt = [d \in Digests |-> 0]

(* NewSessionTicketWithData: a new PSK, sealed with the current key.       *)
Issue(d, randOK) ==
  /\ \A tk \in tickets : tk.psk # d
  /\ rotator' = afterKeys(rotator, now, randOK)
  /\ tickets' = tickets \cup {[psk |-> d, key |-> rotator'.current, at |-> now]}
  /\ UNCHANGED <<now, cache, opened, acceptedAt>>

(* verifyPSKBinder: a ticket no active key opens is declined.              *)
Open(tk, randOK) ==
  /\ rotator' = afterKeys(rotator, now, randOK)
  /\ opened' = IF tk.key \in activeKeys(rotator') THEN opened \cup {tk.psk} ELSE opened
  /\ UNCHANGED <<now, cache, tickets, acceptedAt>>

(* EarlyDataAcceptor on a PSK that was opened, by any of the connections   *)
(* that opened it and any time later.                                      *)
Check(d, age) ==
  /\ d \in opened
  /\ cache' = AfterCheck(cache, d, age, now)
  /\ acceptedAt' = IF Accepts(cache, d, age, now) THEN [acceptedAt EXCEPT ![d] = now]
                   ELSE acceptedAt
  /\ UNCHANGED <<now, rotator, tickets, opened>>

Tick ==
  /\ now < MaxTime
  /\ now' = now + 1
  /\ UNCHANGED <<rotator, cache, tickets, opened, acceptedAt>>

Next ==
  \/ \E d \in Digests, randOK \in BOOLEAN : Issue(d, randOK)
  \/ \E tk \in tickets, randOK \in BOOLEAN : Open(tk, randOK)
  \/ \E d \in Digests, age \in 0 .. MaxAge : Check(d, age)
  \/ Tick

Spec == Init /\ [][Next]_vars

-----------------------------------------------------------------------------
(* Properties.                                                             *)

TypeOK ==
  /\ now \in Nat
  /\ rotator \in [current : Nat, previous : Nat, rotatedAt : Nat]
  /\ rotator.previous < rotator.current
  /\ cache \in [seen : [Digests -> Nat], byExpiry : SUBSET (Nat \X Digests)]
  /\ tickets \subseteq Ticket
  /\ opened \subseteq Digests
  /\ acceptedAt \in [Digests -> Nat]

(* The PSKs accepted for 0-RTT within the last Window. *)
recent == {d \in Digests : acceptedAt[d] # 0 /\ now < acceptedAt[d] + Window}

(* Whatever calls came before, Check never accepts a PSK a second time     *)
(* within the window: evicting buckets lazily, in the course of calls for  *)
(* other digests, loses no entry that is still needed.                     *)
NoReplayInWindow ==
  \A d \in Digests, age \in 0 .. MaxAge :
    Accepts(cache, d, age, now) => d \notin recent

(* Check refuses a ticket young enough only as a replay, or because        *)
(* MaxEntries PSKs were accepted within the window: entries that expired   *)
(* take up no room.                                                        *)
RefusedForAReason ==
  \A d \in Digests, age \in 0 .. MaxAge - 1 :
    ~Accepts(cache, d, age, now) => d \in recent \/ Cardinality(recent) >= MaxEntries

(* The two maps of the cache stay in step and within the bound: every      *)
(* entry is in exactly the bucket of its expiry, so no bucket outlives its *)
(* entries and eviction finds them all.                                    *)
CacheIndexed ==
  /\ cache.byExpiry = {<<cache.seen[d], d>> : d \in live(cache)}
  /\ Cardinality(live(cache)) <= MaxEntries

(* A ticket can be opened for at least a rotation period after it was      *)
(* issued, through rotations by other calls and failures of the random     *)
(* source: "a ticket issued just before a rotation stays valid".           *)
TicketLastsAPeriod ==
  \A tk \in tickets, randOK \in BOOLEAN :
    now - tk.at < Period => tk.key \in activeKeys(afterKeys(rotator, now, randOK))
=============================================================================
