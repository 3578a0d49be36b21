--------------------------- MODULE ZeroRTTProofs ---------------------------
(***************************************************************************)
(* What ZeroRTTAdmission keeps for every number of PSKs, every window,     *)
(* rotation period, age limit and capacity.                                *)
(***************************************************************************)
EXTENDS ZeroRTTAdmission, FiniteSetTheorems, TLAPS

CacheType == [seen : [Digests -> Nat], byExpiry : SUBSET (Nat \X Digests)]

Indexed(c) == c.byExpiry = {<<c.seen[d], d>> : d \in live(c)}

(* With the index in step, eviction removes exactly the entries that have  *)
(* expired, and keeps the index in step.                                   *)
LEMMA EvictedSeen ==
  ASSUME NEW c \in CacheType, NEW t \in Nat, Indexed(c)
  PROVE  /\ evicted(c, t) \in CacheType
         /\ \A d \in Digests : evicted(c, t).seen[d] = IF c.seen[d] > t THEN c.seen[d] ELSE 0
         /\ live(evicted(c, t)) = {d \in Digests : c.seen[d] > t}
<1> DEFINE e == evicted(c, t)
<1>1. e.byExpiry \in SUBSET (Nat \X Digests)
  BY DEF evicted, CacheType
<1>2. e.seen \in [Digests -> Nat]
  BY DEF evicted, CacheType
<1>3. ASSUME NEW d \in Digests
      PROVE  e.seen[d] = IF c.seen[d] > t THEN c.seen[d] ELSE 0
  <2>1. c.seen[d] \in Nat
    BY DEF CacheType
  <2>2. CASE c.seen[d] > t
    BY <2>1, <2>2 DEF evicted
  <2>3. CASE c.seen[d] = 0
    BY <2>1, <2>3 DEF evicted
  <2>4. CASE c.seen[d] <= t /\ c.seen[d] # 0
    <3>1. <<c.seen[d], d>> \in c.byExpiry
      BY <2>4 DEF Indexed, live
    <3>2. \E b \in c.byExpiry : b[1] <= t /\ b[2] = d
      BY <3>1, <2>4
    <3> QED BY <3>2, <2>1, <2>4 DEF evicted
  <2> QED BY <2>1, <2>2, <2>3, <2>4
<1>4. live(e) = {d \in Digests : c.seen[d] > t}
  BY <1>3 DEF live, CacheType
<1>5. e \in CacheType
  BY <1>1, <1>2 DEF evicted, CacheType
<1> QED BY <1>3, <1>4, <1>5

LEMMA EvictedIndexed ==
  ASSUME NEW c \in CacheType, NEW t \in Nat, Indexed(c)
  PROVE  Indexed(evicted(c, t))
<1> DEFINE e == evicted(c, t)
<1>1. e.byExpiry = {b \in c.byExpiry : b[1] > t}
  BY DEF evicted
<1>2. ASSUME NEW b \in e.byExpiry
      PROVE  b \in {<<e.seen[d], d>> : d \in live(e)}
  <2>1. PICK d \in live(c) : b = <<c.seen[d], d>>
    BY <1>1 DEF Indexed
  <2>2. d \in Digests /\ c.seen[d] > t
    BY <2>1, <1>1 DEF live
  <2> QED BY <2>1, <2>2, EvictedSeen
<1>3. ASSUME NEW d \in live(e)
      PROVE  <<e.seen[d], d>> \in e.byExpiry
  <2>1. d \in Digests /\ c.seen[d] > t /\ e.seen[d] = c.seen[d]
    BY EvictedSeen DEF live
  <2>2. d \in live(c)
    BY <2>1 DEF live, CacheType
  <2> QED BY <2>1, <2>2, <1>1 DEF Indexed
<1> QED BY <1>2, <1>3 DEF Indexed

(* Recording a digest that has no entry keeps the index in step.           *)
LEMMA RememberIndexed ==
  ASSUME NEW c \in CacheType, NEW t \in Nat, NEW d \in Digests,
         Indexed(c), d \notin live(c)
  PROVE  /\ remember(c, d, t) \in CacheType
         /\ live(remember(c, d, t)) = live(c) \cup {d}
         /\ Indexed(remember(c, d, t))
<1> DEFINE r == remember(c, d, t)
<1>1. t + Window \in Nat /\ t + Window # 0
  BY CacheAssumption
<1>2. r \in CacheType
  BY <1>1 DEF remember, CacheType
<1>3. r.seen = [c.seen EXCEPT ![d] = t + Window] /\ c.seen \in [Digests -> Nat]
  BY DEF remember, CacheType
<1>4. live(r) = live(c) \cup {d}
  BY <1>1, <1>3 DEF live
<1>5. \A e \in live(c) : r.seen[e] = c.seen[e]
  BY <1>3 DEF live
<1>6. r.byExpiry = c.byExpiry \cup {<<r.seen[d], d>>}
  BY <1>3 DEF remember
<1>7. Indexed(r)
  BY <1>4, <1>5, <1>6 DEF Indexed
<1> QED BY <1>2, <1>4, <1>7

-----------------------------------------------------------------------------
(* The inductive invariant.                                                *)

(* What the cache remembers is when 0-RTT was last accepted, and it has    *)
(* forgotten only what is older than the window.                           *)
SeenIsAccepted ==
  \A d \in Digests :
    /\ acceptedAt[d] <= now
    /\ cache.seen[d] # 0 => acceptedAt[d] # 0 /\ cache.seen[d] = acceptedAt[d] + Window
    /\ cache.seen[d] = 0 => acceptedAt[d] = 0 \/ acceptedAt[d] + Window <= now

(* Tickets under the previous key are from before the last rotation, and   *)
(* tickets under older keys are at least a period old.                     *)
KeysByAge ==
  /\ rotator.rotatedAt <= now
  /\ rotator.current = rotator.previous + 1
  /\ \A tk \in tickets :
       /\ tk.at <= now /\ tk.key # 0 /\ tk.key <= rotator.current
       /\ tk.key = rotator.previous => tk.at <= rotator.rotatedAt
       /\ tk.key < rotator.previous => tk.at + Period <= now

IInv == TypeOK /\ now # 0 /\ SeenIsAccepted /\ CacheIndexed /\ KeysByAge

(* Eviction leaves exactly the PSKs accepted within the window.            *)
LEMMA LiveIsRecent ==
  ASSUME TypeOK, SeenIsAccepted, CacheIndexed
  PROVE  live(evicted(cache, now)) = recent
<1>1. cache \in CacheType /\ now \in Nat /\ Indexed(cache) /\ acceptedAt \in [Digests -> Nat]
  BY DEF TypeOK, CacheType, CacheIndexed, Indexed
<1>2. live(evicted(cache, now)) = {d \in Digests : cache.seen[d] > now}
  BY <1>1, EvictedSeen
<1>3. ASSUME NEW d \in Digests
      PROVE  cache.seen[d] > now <=> acceptedAt[d] # 0 /\ now < acceptedAt[d] + Window
  BY <1>1, CacheAssumption DEF SeenIsAccepted, CacheType
<1> QED BY <1>2, <1>3 DEF recent

(* What Check answers, in terms of what was accepted before.               *)
LEMMA CheckAnswer ==
  ASSUME TypeOK, SeenIsAccepted, CacheIndexed, NEW d \in Digests, NEW age \in Nat
  PROVE  Accepts(cache, d, age, now)
           <=> age < MaxAge /\ d \notin recent /\ Cardinality(recent) < MaxEntries
<1>1. cache \in CacheType /\ now \in Nat /\ Indexed(cache)
  BY DEF TypeOK, CacheType, CacheIndexed, Indexed
<1>2. evicted(cache, now).seen[d] = IF cache.seen[d] > now THEN cache.seen[d] ELSE 0
  BY <1>1, EvictedSeen
<1>3. live(evicted(cache, now)) = {e \in Digests : cache.seen[e] > now}
  BY <1>1, EvictedSeen
<1>4. evicted(cache, now).seen[d] <= now <=> d \notin recent
  BY <1>1, <1>2, <1>3, LiveIsRecent DEF CacheType
<1> QED BY <1>4, LiveIsRecent DEF Accepts, fresh

LEMMA RecentBounded ==
  ASSUME TypeOK, CacheIndexed
  PROVE  /\ IsFiniteSet(recent) /\ IsFiniteSet(live(cache))
         /\ Cardinality(recent) \in Nat
         /\ SeenIsAccepted => Cardinality(recent) <= MaxEntries
<1>1. IsFiniteSet(recent) /\ IsFiniteSet(live(cache))
  BY FS_Subset, CacheAssumption DEF recent, live
<1>2. ASSUME SeenIsAccepted
      PROVE  recent \subseteq live(cache)
  BY <1>2, CacheAssumption DEF recent, live, SeenIsAccepted, TypeOK
<1>3. ASSUME SeenIsAccepted
      PROVE  Cardinality(recent) <= MaxEntries
  <2>1. recent \subseteq live(cache)
    BY <1>2, <1>3
  <2>2. Cardinality(recent) <= Cardinality(live(cache))
    BY <2>1, <1>1, FS_Subset
  <2>3. Cardinality(recent) \in Nat /\ Cardinality(live(cache)) \in Nat
    BY <1>1, FS_CardinalityType
  <2> QED BY <2>2, <2>3, CacheAssumption DEF CacheIndexed
<1>4. Cardinality(recent) \in Nat
  BY <1>1, FS_CardinalityType
<1> QED BY <1>1, <1>3, <1>4

-----------------------------------------------------------------------------
(* The steps.                                                              *)

(* keys keeps tickets and keys in order, whether it rotates or not.        *)
LEMMA AfterKeys ==
  ASSUME TypeOK, KeysByAge, NEW randOK \in BOOLEAN
  PROVE  LET r == afterKeys(rotator, now, randOK)
         IN  /\ r \in [current : Nat, previous : Nat, rotatedAt : Nat]
             /\ r.previous < r.current
             /\ r.rotatedAt <= now
             /\ r.current = r.previous + 1
             /\ \A tk \in tickets :
                  /\ tk.at <= now /\ tk.key # 0 /\ tk.key <= r.current
                  /\ tk.key = r.previous => tk.at <= r.rotatedAt
                  /\ tk.key < r.previous => tk.at + Period <= now
<1> DEFINE r == afterKeys(rotator, now, randOK)
<1>0. /\ now \in Nat /\ rotator.current \in Nat /\ rotator.previous \in Nat
      /\ rotator.rotatedAt \in Nat /\ Period \in Nat
  BY RotatorAssumption DEF TypeOK
<1>1. \A tk \in tickets : tk.at \in Nat /\ tk.key \in Nat
  BY DEF TypeOK, Ticket
<1>2. CASE rotationDue(rotator, now) /\ randOK
  <2>1. r = [current |-> rotator.current + 1, previous |-> rotator.current, rotatedAt |-> now]
    BY <1>2 DEF afterKeys, rotateLocked
  <2>2. now - rotator.rotatedAt >= Period
    BY <1>2 DEF rotationDue
  <2>3. ASSUME NEW tk \in tickets
        PROVE  /\ tk.at <= now /\ tk.key # 0 /\ tk.key <= r.current
               /\ tk.key = r.previous => tk.at <= r.rotatedAt
               /\ tk.key < r.previous => tk.at + Period <= now
    BY <1>0, <1>1, <2>1, <2>2 DEF KeysByAge
  <2> QED BY <1>0, <2>1, <2>3
<1>3. CASE ~(rotationDue(rotator, now) /\ randOK)
  BY <1>3 DEF afterKeys, TypeOK, KeysByAge
<1> QED BY <1>2, <1>3

LEMMA InitIInv == Init => IInv
<1> SUFFICES ASSUME Init PROVE IInv
  OBVIOUS
<1>1. cache \in [seen : [Digests -> Nat], byExpiry : SUBSET (Nat \X Digests)]
  BY DEF Init, newCache
<1>2. TypeOK
  BY <1>1 DEF Init, TypeOK, newTicketKeyRotator
<1>3. live(cache) = {} /\ cache.byExpiry = {}
  BY DEF Init, newCache, live
<1>4. CacheIndexed
  BY <1>3, FS_EmptySet, CacheAssumption DEF CacheIndexed
<1>5. SeenIsAccepted
  BY DEF Init, newCache, SeenIsAccepted
<1>6. KeysByAge
  BY DEF Init, newTicketKeyRotator, KeysByAge
<1> QED BY <1>2, <1>4, <1>5, <1>6 DEF IInv, Init

LEMMA IssueIInv ==
  ASSUME IInv, NEW d \in Digests, NEW randOK \in BOOLEAN, Issue(d, randOK)
  PROVE  IInv'
<1> DEFINE new == [psk |-> d, key |-> rotator'.current, at |-> now]
<1>1. TypeOK /\ KeysByAge
  BY DEF IInv
<1>2. rotator' = afterKeys(rotator, now, randOK) /\ tickets' = tickets \cup {new} /\ now' = now
  BY DEF Issue
<1>3. /\ rotator' \in [current : Nat, previous : Nat, rotatedAt : Nat]
      /\ rotator'.previous < rotator'.current
      /\ rotator'.rotatedAt <= now
      /\ rotator'.current = rotator'.previous + 1
      /\ \A tk \in tickets :
           /\ tk.at <= now /\ tk.key # 0 /\ tk.key <= rotator'.current
           /\ tk.key = rotator'.previous => tk.at <= rotator'.rotatedAt
           /\ tk.key < rotator'.previous => tk.at + Period <= now
  BY <1>1, <1>2, AfterKeys
<1>4. new \in Ticket
  BY <1>1, <1>3 DEF Ticket, TypeOK
<1>5. TypeOK'
  BY <1>1, <1>2, <1>3, <1>4 DEF TypeOK, Issue
<1>6. /\ new.at = now /\ new.key = rotator'.current
      /\ rotator'.current \in Nat /\ rotator'.previous \in Nat /\ now \in Nat
  BY <1>1, <1>3 DEF TypeOK
<1>7. KeysByAge'
  BY <1>2, <1>3, <1>6 DEF KeysByAge
<1>8. SeenIsAccepted' /\ CacheIndexed' /\ now' # 0
  BY DEF IInv, Issue, SeenIsAccepted, CacheIndexed, live
<1> QED BY <1>5, <1>7, <1>8 DEF IInv

LEMMA OpenIInv ==
  ASSUME IInv, NEW tk \in tickets, NEW randOK \in BOOLEAN, Open(tk, randOK)
  PROVE  IInv'
<1>1. TypeOK /\ KeysByAge
  BY DEF IInv
<1>2. rotator' = afterKeys(rotator, now, randOK) /\ tickets' = tickets /\ now' = now
  BY DEF Open
<1>3. /\ rotator' \in [current : Nat, previous : Nat, rotatedAt : Nat]
      /\ rotator'.previous < rotator'.current
  BY <1>1, <1>2, AfterKeys
<1>4. opened' \subseteq Digests
  BY <1>1 DEF Open, TypeOK, Ticket
<1>5. TypeOK'
  BY <1>1, <1>2, <1>3, <1>4 DEF TypeOK, Open
<1>6. KeysByAge'
  BY <1>1, <1>2, AfterKeys DEF KeysByAge
<1>7. SeenIsAccepted' /\ CacheIndexed' /\ now' # 0
  BY DEF IInv, Open, SeenIsAccepted, CacheIndexed, live
<1> QED BY <1>5, <1>6, <1>7 DEF IInv

LEMMA CheckIInv ==
  ASSUME IInv, NEW d \in Digests, NEW age \in 0 .. MaxAge, Check(d, age)
  PROVE  IInv'
<1> DEFINE e == evicted(cache, now)
<1>0. age \in Nat
  BY CacheAssumption
<1>1. /\ cache \in CacheType /\ now \in Nat /\ Indexed(cache)
      /\ acceptedAt \in [Digests -> Nat] /\ now # 0
      /\ TypeOK /\ SeenIsAccepted /\ CacheIndexed
  BY DEF IInv, TypeOK, CacheType, CacheIndexed, Indexed
<1>2. /\ e \in CacheType /\ Indexed(e) /\ live(e) = recent
      /\ \A x \in Digests : e.seen[x] = IF cache.seen[x] > now THEN cache.seen[x] ELSE 0
  BY <1>1, EvictedSeen, EvictedIndexed, LiveIsRecent
<1>3. /\ IsFiniteSet(recent) /\ Cardinality(recent) \in Nat
      /\ Cardinality(recent) <= MaxEntries
  BY <1>1, RecentBounded
<1>4. now' = now /\ rotator' = rotator /\ tickets' = tickets /\ opened' = opened
  BY DEF Check
<1>5. CASE age >= MaxAge
  <2>1. cache' = cache /\ acceptedAt' = acceptedAt
    BY <1>0, <1>5, CacheAssumption DEF Check, AfterCheck, Accepts
  <2> QED BY <1>4, <2>1 DEF IInv, TypeOK, SeenIsAccepted, CacheIndexed, KeysByAge, live
<1>6. CASE age < MaxAge /\ ~fresh(e, d, now)
  <2>1. cache' = e /\ acceptedAt' = acceptedAt
    BY <1>0, <1>6, CacheAssumption DEF Check, AfterCheck, Accepts
  <2>2. SeenIsAccepted'
    BY <1>1, <1>2, <1>4, <2>1, CacheAssumption DEF SeenIsAccepted, CacheType
  <2>3. CacheIndexed'
    BY <1>2, <1>3, <2>1 DEF CacheIndexed, Indexed
  <2>4. TypeOK'
    BY <1>1, <1>2, <1>4, <2>1 DEF TypeOK, CacheType
  <2> QED BY <1>1, <1>4, <2>2, <2>3, <2>4 DEF IInv, KeysByAge
<1>7. CASE age < MaxAge /\ fresh(e, d, now)
  <2>1. cache' = remember(e, d, now) /\ acceptedAt' = [acceptedAt EXCEPT ![d] = now]
    BY <1>0, <1>7, CacheAssumption DEF Check, AfterCheck, Accepts
  <2>2. d \notin recent /\ Cardinality(recent) < MaxEntries
    BY <1>0, <1>1, <1>7, CheckAnswer DEF Accepts
  <2>3. cache' \in CacheType /\ Indexed(cache') /\ live(cache') = recent \cup {d}
    BY <1>1, <1>2, <2>1, <2>2, RememberIndexed
  <2>4. Cardinality(live(cache')) <= MaxEntries
    <3>1. Cardinality(recent \cup {d}) = Cardinality(recent) + 1
      BY <1>3, <2>2, FS_AddElement
    <3> QED BY <1>3, <2>2, <2>3, <3>1, CacheAssumption
  <2>5. CacheIndexed'
    BY <2>3, <2>4 DEF CacheIndexed, Indexed
  <2>6. cache'.seen = [e.seen EXCEPT ![d] = now + Window] /\ e.seen \in [Digests -> Nat]
    BY <1>2, <2>1 DEF remember, CacheType
  <2>7. ASSUME NEW x \in Digests
        PROVE  /\ acceptedAt'[x] <= now
               /\ cache'.seen[x] # 0
                    => acceptedAt'[x] # 0 /\ cache'.seen[x] = acceptedAt'[x] + Window
               /\ cache'.seen[x] = 0 => acceptedAt'[x] = 0 \/ acceptedAt'[x] + Window <= now
    <3>1. CASE x = d
      BY <1>1, <2>1, <2>6, <3>1, CacheAssumption
    <3>2. CASE x # d
      <4>1. cache'.seen[x] = (IF cache.seen[x] > now THEN cache.seen[x] ELSE 0)
        BY <1>2, <2>6, <3>2
      <4>2. acceptedAt'[x] = acceptedAt[x]
        BY <1>1, <2>1, <3>2
      <4> QED BY <1>1, <4>1, <4>2, CacheAssumption DEF SeenIsAccepted, CacheType
    <3> QED BY <3>1, <3>2
  <2>8. SeenIsAccepted'
    BY <1>4, <2>7 DEF SeenIsAccepted
  <2>9. TypeOK'
    BY <1>1, <1>4, <2>1, <2>3 DEF TypeOK, CacheType
  <2> QED BY <1>1, <1>4, <2>5, <2>8, <2>9 DEF IInv, KeysByAge
<1> QED BY <1>0, <1>5, <1>6, <1>7, CacheAssumption

LEMMA TickIInv ==
  ASSUME IInv, Tick
  PROVE  IInv'
<1>1. now \in Nat /\ now' = now + 1 /\ acceptedAt \in [Digests -> Nat]
  BY DEF IInv, TypeOK, Tick
<1>2. UNCHANGED <<rotator, cache, tickets, opened, acceptedAt>>
  BY DEF Tick
<1>3. TypeOK' /\ now' # 0 /\ CacheIndexed'
  BY <1>1, <1>2 DEF IInv, TypeOK, CacheIndexed, live
<1>4. SeenIsAccepted'
  BY <1>1, <1>2, CacheAssumption DEF IInv, SeenIsAccepted
<1>5. rotator.rotatedAt \in Nat /\ \A tk \in tickets : tk.at \in Nat
  BY DEF IInv, TypeOK, Ticket
<1>6. KeysByAge'
  BY <1>1, <1>2, <1>5, RotatorAssumption DEF IInv, KeysByAge
<1> QED BY <1>3, <1>4, <1>6 DEF IInv

(* Every reachable state of admission satisfies the inductive invariant.   *)
THEOREM Invariance == Spec => []IInv
<1>1. IInv /\ [Next]_vars => IInv'
  <2> SUFFICES ASSUME IInv, [Next]_vars PROVE IInv'
    OBVIOUS
  <2>1. CASE \E d \in Digests, randOK \in BOOLEAN : Issue(d, randOK)
    BY <2>1, IssueIInv
  <2>2. CASE \E tk \in tickets, randOK \in BOOLEAN : Open(tk, randOK)
    BY <2>2, OpenIInv
  <2>3. CASE \E d \in Digests, age \in 0 .. MaxAge : Check(d, age)
    BY <2>3, CheckIInv
  <2>4. CASE Tick
    BY <2>4, TickIInv
  <2>5. CASE UNCHANGED vars
    BY <2>5 DEF vars, IInv, TypeOK, SeenIsAccepted, CacheIndexed, KeysByAge, live
  <2> QED BY <2>1, <2>2, <2>3, <2>4, <2>5 DEF Next
<1> QED BY InitIInv, <1>1, PTL DEF Spec

(* Check never accepts a PSK twice within the window, whatever the order   *)
(* and the timing of the calls.                                            *)
THEOREM NoReplay == Spec => []NoReplayInWindow
<1>1. IInv => NoReplayInWindow
  BY CheckAnswer, CacheAssumption DEF IInv, NoReplayInWindow
<1> QED BY <1>1, Invariance, PTL

(* Check refuses a young ticket only as a replay or for want of room among *)
(* the PSKs accepted within the window.                                    *)
THEOREM NoFalseRefusal == Spec => []RefusedForAReason
<1>1. IInv => RefusedForAReason
  <2> SUFFICES ASSUME IInv, NEW d \in Digests, NEW age \in 0 .. MaxAge - 1,
                      ~Accepts(cache, d, age, now)
               PROVE  d \in recent \/ Cardinality(recent) >= MaxEntries
    BY DEF RefusedForAReason
  <2>1. age \in Nat /\ age < MaxAge
    BY CacheAssumption
  <2>2. TypeOK /\ SeenIsAccepted /\ CacheIndexed
    BY DEF IInv
  <2>3. Cardinality(recent) \in Nat
    BY <2>2, RecentBounded
  <2> QED BY <2>1, <2>2, <2>3, CheckAnswer, CacheAssumption
<1> QED BY <1>1, Invariance, PTL

(* The two maps of the cache agree, and hold at most MaxEntries digests.   *)
THEOREM CacheInStep == Spec => []CacheIndexed
<1>1. IInv => CacheIndexed
  BY DEF IInv
<1> QED BY <1>1, Invariance, PTL

(* A ticket issued less than a rotation period ago can be opened.          *)
THEOREM TicketLasts == Spec => []TicketLastsAPeriod
<1>1. IInv => TicketLastsAPeriod
  <2> SUFFICES ASSUME IInv, NEW tk \in tickets, NEW randOK \in BOOLEAN, now - tk.at < Period
               PROVE  tk.key \in activeKeys(afterKeys(rotator, now, randOK))
    BY DEF TicketLastsAPeriod
  <2> DEFINE r == afterKeys(rotator, now, randOK)
  <2>1. TypeOK /\ KeysByAge
    BY DEF IInv
  <2>2. /\ r \in [current : Nat, previous : Nat, rotatedAt : Nat]
        /\ r.current = r.previous + 1
        /\ tk.key # 0 /\ tk.key <= r.current
        /\ tk.key < r.previous => tk.at + Period <= now
    BY <2>1, AfterKeys
  <2>3. tk.key \in Nat /\ tk.at \in Nat /\ now \in Nat
    BY <2>1 DEF TypeOK, Ticket
  <2>4. r.current \in Nat /\ r.previous \in Nat
    BY <2>2
  <2> HIDE DEF r
  <2>5. tk.key = r.current \/ tk.key = r.previous
    BY <2>2, <2>3, <2>4, RotatorAssumption
  <2>6. tk.key \in activeKeys(r)
    BY <2>2, <2>5 DEF activeKeys
  <2> QED BY <2>6 DEF r
<1> QED BY <1>1, Invariance, PTL
=============================================================================
