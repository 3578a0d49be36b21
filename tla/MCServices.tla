----------------------------- MODULE MCServices ----------------------------
(***************************************************************************)
(* The two services with a life beyond one connection: admission of 0-RTT  *)
(* and the publication of CRLs.  A behaviour is one of one of them; the    *)
(* other keeps its first state.                                            *)
(***************************************************************************)
EXTENDS ZeroRTTAdmission, TLC

CONSTANTS Parts, d1, d2, d3, i1, i2, Issuers, Requests, Loop, MaxRevocations, MaxNumber, MaxCalls, MaxRestarts
VARIABLES part, source, explicit, counter, revoked, gen, pc, todo, job, loop, stop, calls, restarts, best

Digest3 == {d1, d2, d3}
OneIssuer == <<i1>>
TwoIssuers == <<i1, i2>>

crlVars == <<source, explicit, counter, revoked, gen, pc, todo, job, loop, stop, calls, restarts, best>>
CRLs == INSTANCE CRLGenerator

all == <<part, vars, crlVars>>
MCInit == part \in Parts /\ Init /\ CRLs!Init /\ (part # "crl" => source /\ explicit)
MCNext ==
  \/ part = "admission" /\ Next /\ UNCHANGED <<part, crlVars>>
  \/ part = "crl" /\ CRLs!Next /\ UNCHANGED <<part, vars>>
CRLStep == part = "crl" /\ CRLs!Step(Loop) /\ UNCHANGED <<part, vars>>
CRLTick == part = "crl" /\ CRLs!Tick /\ UNCHANGED <<part, vars>>
MCSpec == MCInit /\ [][MCNext]_all /\ WF_all(CRLStep) /\ WF_all(CRLTick)

(* The properties of the CRL generators, explained there.                  *)
NumbersGrow == CRLs!NumbersGrow
RevocationStaysPublished == CRLs!RevocationStaysPublished
StopEndsLoop == CRLs!StopEndsLoop
=============================================================================
