---------------------------- MODULE CRLGenerator ---------------------------
(***************************************************************************)
(* CRL generators of several issuers and the fanout over them (crl/crl.go, *)
(* crl/fanout.go), called by goroutines: the fanout's own update loop, and *)
(* the requests that revoke a certificate or ask for a CRL.                *)
(*                                                                         *)
(* A CRL is [num, list]: its number and the revocations in it.  Revoked    *)
(* lists only grow, so a list is the number of revocations it holds.  A    *)
(* call of GenerateWithOptions holds g.mu only while it reserves a number  *)
(* and while it stores the result: each stretch between is a step.  The    *)
(* authority, the signer and the number source may fail at any call.       *)
(***************************************************************************)
EXTENDS Naturals, Sequences, Functions

CONSTANTS Issuers,        \* the generators, as a sequence: the first is the primary
          Requests,       \* goroutines that serve requests
          Loop,           \* the goroutine of the fanout's update loop
          MaxRevocations, \* bound on the revocations of an issuer
          MaxNumber,      \* bound on CRL numbers
          MaxCalls,       \* bound on the updates and requests
          MaxRestarts     \* bound on restarts of the process

Gens == Range(Issuers)
Procs == Requests \cup {Loop}

VARIABLES source,    \* whether the generators have a persistent numberSource
          explicit,  \* whether requests may give a CRL number themselves
          counter,   \* counter[g]: the last number the source of g gave out
          revoked,   \* revoked[g]: the list the authority holds for g
          gen,       \* gen[g]: the crlGenerator
          pc, todo, job,  \* of each goroutine: its place, the generators to go, its call
          loop, stop,     \* the update loop, and whether f.stop is closed
          calls, restarts,
          best       \* best[g]: the greatest number and list of the calls completed

vars == <<source, explicit, counter, revoked, gen, pc, todo, job, loop, stop, calls, restarts, best>>
options == <<source, explicit>>
auto == <<loop, stop>>
bounds == <<calls, restarts>>

NoCRL == [num |-> 0, list |-> 0]
CRL == [num : 0 .. MaxNumber, list : 0 .. MaxRevocations]
NoJob == [num |-> 0, list |-> 0, floor |-> NoCRL]

NewGeneratorWithIssuer == [crlNumber |-> 0, lastCRL |-> NoCRL, cache |-> NoCRL, stopped |-> FALSE]

(* Get: the cache when it holds a CRL, else the last one.                  *)
Served(g) == IF gen[g].cache # NoCRL THEN gen[g].cache ELSE gen[g].lastCRL

Max2(a, b) == IF a >= b THEN a ELSE b
Raise(b, c) == [num |-> Max2(b.num, c.num), list |-> Max2(b.list, c.list)]

NewGens == [g \in Gens |-> NewGeneratorWithIssuer]
Idle == [p \in Procs |-> "idle"]

Init ==
  /\ source \in BOOLEAN /\ explicit \in BOOLEAN
  /\ counter = [g \in Gens |-> 0]
  /\ revoked = [g \in Gens |-> 0]
  /\ gen = NewGens
  /\ pc = Idle /\ todo = [p \in Procs |-> <<>>] /\ job = [p \in Procs |-> NoJob]
  /\ loop = "off" /\ stop = FALSE
  /\ calls = 0 /\ restarts = 0
  /\ best = [g \in Gens |-> NoCRL]

-----------------------------------------------------------------------------
(* Starting calls.                                                         *)

(* Goroutine p calls each of gens in turn, with the number option n.       *)
Begin(p, gens, n) ==
  /\ pc[p] = "idle" /\ calls < MaxCalls
  /\ calls' = calls + 1
  /\ pc' = [pc EXCEPT ![p] = "fetch"]
  /\ todo' = [todo EXCEPT ![p] = gens]
  /\ job' = [job EXCEPT ![p] = [NoJob EXCEPT !.num = n]]

(* authority.Revoke of a certificate of g, and Update of the fanout.       *)
Revoke(p, g) ==
  /\ revoked[g] < MaxRevocations
  /\ Begin(p, Issuers, 0)
  /\ revoked' = [revoked EXCEPT ![g] = @ + 1]
  /\ UNCHANGED <<options, counter, gen, auto, restarts, best>>

(* Generate and GenerateWithOptions of the fanout: the primary's.          *)
Generate(p, n) ==
  /\ n = 0 \/ explicit
  /\ Begin(p, <<Head(Issuers)>>, n)
  /\ UNCHANGED <<options, counter, revoked, gen, auto, restarts, best>>

-----------------------------------------------------------------------------
(* GenerateWithOptions, step by step.                                      *)

G(p) == Head(todo[p])

(* p is done with its generator and turns to the next one, if any.         *)
Done(p) ==
  /\ todo' = [todo EXCEPT ![p] = Tail(@)]
  /\ pc' = [pc EXCEPT ![p] = IF Tail(todo[p]) = <<>> THEN "idle" ELSE "fetch"]
  /\ job' = [job EXCEPT ![p] = NoJob]

Fetch(p) ==
  /\ pc[p] = "fetch"
  /\ job' = [job EXCEPT ![p].list = revoked[G(p)], ![p].floor = best[G(p)]]
  /\ pc' = [pc EXCEPT ![p] = "number"]
  /\ UNCHANGED <<options, counter, revoked, gen, todo, auto, bounds, best>>

(* The source is called without the lock.                                  *)
CallSource(p) ==
  /\ pc[p] = "number" /\ source /\ job[p].num = 0
  /\ counter[G(p)] < MaxNumber
  /\ counter' = [counter EXCEPT ![G(p)] = @ + 1]
  /\ job' = [job EXCEPT ![p].num = counter'[G(p)]]
  /\ UNCHANGED <<options, revoked, gen, pc, todo, auto, bounds, best>>

(* Under the lock: a number not above the last one is refused.             *)
numberFor(p) == IF job[p].num = 0 THEN gen[G(p)].crlNumber + 1 ELSE job[p].num

acceptedNotBelow(g, n) == n >= gen[g].crlNumber
accepted(g, n) == n > gen[g].crlNumber

Reserve(p) ==
  LET g == G(p)
      n == numberFor(p)
  IN  /\ pc[p] = "number" /\ (source => job[p].num # 0)
      /\ n <= MaxNumber
      /\ IF accepted(g, n)
         THEN /\ gen' = [gen EXCEPT ![g].crlNumber = n]
              /\ job' = [job EXCEPT ![p].num = n]
              /\ pc' = [pc EXCEPT ![p] = "sign"]
              /\ UNCHANGED todo
         ELSE Done(p) /\ UNCHANGED gen
      /\ UNCHANGED <<options, counter, revoked, auto, bounds, best>>

(* The CRL is signed and stored as the last one.                           *)
Sign(p) ==
  /\ pc[p] = "sign"
  /\ gen' = [gen EXCEPT ![G(p)].lastCRL = [num |-> job[p].num, list |-> job[p].list]]
  /\ pc' = [pc EXCEPT ![p] = "publish"]
  /\ UNCHANGED <<options, counter, revoked, todo, job, auto, bounds, best>>

Publish(p) ==
  LET g == G(p)
      crl == [num |-> job[p].num, list |-> job[p].list]
  IN  /\ pc[p] = "publish"
      /\ gen' = [gen EXCEPT ![g].cache = crl]
      /\ best' = [best EXCEPT ![g] = Raise(@, crl)]
      /\ Done(p)
      /\ UNCHANGED <<options, counter, revoked, auto, bounds>>

(* An error of the authority, the source or the signer; a call that would  *)
(* pass MaxNumber fails too.                                               *)
Fail(p) ==
  /\ pc[p] \in {"fetch", "number", "sign"}
  /\ pc[p] = "number" => (source /\ job[p].num = 0) \/ numberFor(p) > MaxNumber
  /\ Done(p)
  /\ UNCHANGED <<options, counter, revoked, gen, auto, bounds, best>>

Clear(g) ==
  /\ gen[g].cache # NoCRL
  /\ gen' = [gen EXCEPT ![g].cache = NoCRL]
  /\ UNCHANGED <<options, counter, revoked, pc, todo, job, auto, bounds, best>>

-----------------------------------------------------------------------------
(* The update loop of the fanout.                                          *)

allStopped == \A g \in Gens : gen[g].stopped

StartAutoUpdate ==
  /\ loop = "off"
  /\ loop' = "on"
  /\ UNCHANGED <<options, counter, revoked, gen, pc, todo, job, stop, bounds, best>>

(* StopAutoUpdate of the fanout, which stops its generators too.           *)
StopAutoUpdate ==
  /\ ~stop
  /\ stop' = TRUE
  /\ gen' = [g \in Gens |-> [gen[g] EXCEPT !.stopped = TRUE]]
  /\ UNCHANGED <<options, counter, revoked, pc, todo, job, loop, bounds, best>>

StopOne(g) ==
  /\ ~gen[g].stopped
  /\ gen' = [gen EXCEPT ![g].stopped = TRUE]
  /\ UNCHANGED <<options, counter, revoked, pc, todo, job, auto, bounds, best>>

TickOn ==
  /\ loop = "on"
  /\ Begin(Loop, Issuers, 0)
  /\ UNCHANGED <<options, counter, revoked, gen, auto, restarts, best>>

(* The select: a tick, which ends the loop when there is no generator left *)
(* to drive and updates them all otherwise, or the closed stop channel.    *)
Tick ==
  /\ loop = "on" /\ pc[Loop] = "idle"
  /\ \/ allStopped /\ loop' = "exited" /\ UNCHANGED <<pc, todo, job, calls>>
     \/ ~allStopped /\ Begin(Loop, Issuers, 0) /\ UNCHANGED loop
  /\ UNCHANGED <<options, counter, revoked, gen, stop, restarts, best>>

Stopped ==
  /\ loop = "on" /\ pc[Loop] = "idle" /\ stop
  /\ loop' = "exited"
  /\ UNCHANGED <<options, counter, revoked, gen, pc, todo, job, stop, bounds, best>>

(* The process restarts: only the authority and the number source persist, *)
(* so without a source the numbering starts over.                          *)
Restart ==
  /\ restarts < MaxRestarts
  /\ restarts' = restarts + 1
  /\ gen' = NewGens
  /\ pc' = Idle /\ todo' = [p \in Procs |-> <<>>] /\ job' = [p \in Procs |-> NoJob]
  /\ loop' = "off" /\ stop' = FALSE
  /\ UNCHANGED <<options, counter, revoked, calls, best>>

Step(p) == Fetch(p) \/ CallSource(p) \/ Reserve(p) \/ Sign(p) \/ Publish(p) \/ Fail(p)

Next ==
  \/ \E p \in Requests, g \in Gens : Revoke(p, g)
  \/ \E p \in Requests, n \in 0 .. MaxNumber : Generate(p, n)
  \/ \E p \in Procs : Step(p)
  \/ \E g \in Gens : Clear(g) \/ StopOne(g)
  \/ StartAutoUpdate \/ StopAutoUpdate \/ Tick \/ Stopped \/ Restart

Spec == Init /\ [][Next]_vars

(* The ticker fires, and calls to the authority and the signer return, at  *)
(* the latest when the context of five minutes expires.                    *)
FairSpec == Spec /\ WF_vars(Step(Loop)) /\ WF_vars(Tick)

-----------------------------------------------------------------------------
(* Properties.                                                             *)

TypeOK ==
  /\ source \in BOOLEAN /\ explicit \in BOOLEAN /\ stop \in BOOLEAN
  /\ counter \in [Gens -> 0 .. MaxNumber]
  /\ revoked \in [Gens -> 0 .. MaxRevocations]
  /\ gen \in [Gens -> [crlNumber : 0 .. MaxNumber, lastCRL : CRL, cache : CRL, stopped : BOOLEAN]]
  /\ pc \in [Procs -> {"idle", "fetch", "number", "sign", "publish"}]
  /\ \A p \in Procs : todo[p] = <<>> <=> pc[p] = "idle"
  /\ job \in [Procs -> [num : 0 .. MaxNumber, list : 0 .. MaxRevocations, floor : CRL]]
  /\ loop \in {"off", "on", "exited"}
  /\ calls \in 0 .. MaxCalls /\ restarts \in 0 .. MaxRestarts
  /\ best \in [Gens -> CRL]

numbered(p) == pc[p] \in {"sign", "publish"}

(* Two calls on one generator that are in progress at the same time never  *)
(* hold the same number, though the number source is called without the    *)
(* lock and a caller may give the number: "autoUpdateLoop and HTTP         *)
(* Generate in parallel do not violate monotonicity or uniqueness".        *)
NumbersUnique ==
  \A p, q \in Procs :
    p # q /\ numbered(p) /\ numbered(q) /\ G(p) = G(q) => job[p].num # job[q].num

(* A call that starts after another one completed produces a CRL with      *)
(* every revocation the other one had, and with a greater number: also     *)
(* across restarts when all numbers come from the persistent source        *)
(* (NewGeneratorWithNumberSource), else within the life of the process.    *)
LaterCallsAreNewer ==
  \A p \in Procs :
    numbered(p) =>
      /\ job[p].list >= job[p].floor.list
      /\ restarts = 0 \/ (source /\ ~explicit) => job[p].num > job[p].floor.num

(* Once every generator has been stopped, through the fanout or one by     *)
(* one, before or after the loop was started, the update loop ends.        *)
StopEndsLoop == (loop = "on" /\ allStopped) ~> (loop # "on")

(* Once a call that saw a revocation has completed, the CRL served has it: *)
(* "after the certificate of any issuer is revoked all CRLs are refreshed  *)
(* in step" (fanout.go).                                                   *)
RevocationStaysPublished == \A g \in Gens : Served(g).list >= best[g].list

(* Types, and the two promises about numbers together: while calls overlap *)
(* and from one call to the next (GenerateWithOptions).                    *)
NumbersGrow ==
  /\ TypeOK
  /\ NumbersUnique
  /\ LaterCallsAreNewer
=============================================================================
