------------------------------ MODULE TLCPConn -----------------------------
(***************************************************************************)
(* TLCP connections (tlcp/engine_conn.go, engine_handshake_client.go,      *)
(* engine_handshake_server.go, engine_session.go): clients that share one  *)
(* configuration, and so one session cache, connect to servers that each   *)
(* have a cache of their own.  Connection c has two endpoints; wire[c][r]  *)
(* holds the records on their way to endpoint r, in order (TCP).           *)
(*                                                                         *)
(* An endpoint runs three goroutines: the handshake driver, whose pending  *)
(* calls are ep.todo and which reads a record when none is left; the       *)
(* application, which reads and writes once the handshake is done; and     *)
(* Close, itself two goroutines (ep.close and ep.alert).  A record is      *)
(* encrypted and put on the wire, or in sendBuf, under out.mu: one step.   *)
(*                                                                         *)
(* Randoms, keys and session ids made in connection c are named by c: the  *)
(* master secret of a full handshake on c, and its session id, are c.      *)
(***************************************************************************)
EXTENDS TLCPEngine

CONSTANTS Conns,     \* connections: 1 .. n
          Configs    \* the configurations a behaviour may have

Roles == {"client", "server"}
Peer(r) == IF r = "client" THEN "server" ELSE "client"
Suites == {"ECC", "ECDHE"}

VARIABLES cfg,       \* the configuration of this behaviour: see MCTLCP
          ep,        \* ep[c][r]: the tlcpConn
          wire,      \* wire[c][r]: records on their way to r
          cache,     \* cache[x]: the client's cache, and that of each server
          heap,      \* heap[c][r]: the SessionState r stored after connection c
          wrote, got \* data written by r and accepted by the wire; data read by r

vars == <<cfg, ep, wire, cache, heap, wrote, got>>

Active == DOMAIN cfg.to      \* the connections of this behaviour
Server(c) == cfg.to[c]
CacheOf(c, r) == IF r = "client" THEN "client" ELSE Server(c)
CapOf(r) == IF r = "client" THEN cfg.clientCap ELSE cfg.serverCap
IDKey(sid) == <<"id", sid>>
IdentityKey(c) == <<"sni", Server(c)>>

NoSession == [sid |-> 0, ms |-> NoSecret, suite |-> "none", zeroed |-> FALSE, old |-> FALSE]

Call(op, typ, msg) == [op |-> op, typ |-> typ, msg |-> msg]
WriteRecord(typ, msg) == Call("write", typ, msg)
WriteHandshake(msg) == WriteRecord("handshake", msg)
Buffer == Call("buffer", "none", NoMsg)
Flush == Call("flush", "none", NoMsg)
Store == Call("store", "none", NoMsg)
Settle == Call("settle", "none", NoMsg)
Unbuffer == Call("unbuffer", "none", NoMsg)
WriteCCS == WriteRecord("ccs", NoMsg)
WriteAlert(desc) == WriteRecord("alert", Msg(desc, 0, {}))

NewTLCPConn ==
  [pc |-> "idle", todo |-> <<>>, sendBuf |-> <<>>, buffering |-> FALSE,
   in |-> NewHalf, out |-> NewHalf, session |-> NoSession, suite |-> "none",
   sid |-> 0, ms |-> NoSecret, resumed |-> FALSE, transcript |-> <<>>,
   peerCert |-> FALSE, certRequested |-> FALSE, open |-> TRUE,
   close |-> "none", alert |-> "none", read |-> "ok", overflow |-> FALSE, told |-> 0]

Init ==
  /\ cfg \in Configs
  /\ ep = [c \in Conns |-> [r \in Roles |-> NewTLCPConn]]
  /\ wire = [c \in Conns |-> [r \in Roles |-> <<>>]]
  /\ cache = [x \in {"client"} \cup Range(cfg.to) |-> <<>>]
  /\ heap = [c \in Conns |-> [r \in Roles |-> NoSession]]
  /\ wrote = [c \in Conns |-> [r \in Roles |-> <<>>]]
  /\ got = [c \in Conns |-> [r \in Roles |-> <<>>]]

-----------------------------------------------------------------------------
(* Keys and secrets.                                                       *)

EstablishKeys(e, c, r, ms) ==
  [e EXCEPT !.ms = ms, !.out = PrepareCipherSpec(@, KeysFromMaster(ms, c, r)),
            !.in = PrepareCipherSpec(@, KeysFromMaster(ms, c, Peer(r)))]

(* The handshake fails: a fatal alert, through the send buffer if buffering*)
(* is on, and the error is stored for every later call.                    *)
Failed(e) == [e EXCEPT !.pc = "failed", !.todo = <<WriteAlert("handshake_failure"), Flush>>]

(* What Handshake does once its driver has returned nil.                   *)
Completion == <<Settle, Unbuffer>>
SendFinishedStoring(r, e) ==
  <<Buffer, WriteCCS, WriteHandshake(FinishedMsg(FinishedSum(r, e.ms, e.transcript))), Flush>>
  \o (IF r = "client" /\ ~e.resumed THEN <<Store>> ELSE <<>>)
SendFinished(r, e) ==
  <<Buffer, WriteCCS, WriteHandshake(FinishedMsg(FinishedSum(r, e.ms, e.transcript))), Flush>>

-----------------------------------------------------------------------------
(* Writing.  A conn.Write fails when the local end is closed, and may fail *)
(* or be lost when the peer's is.                                          *)

Open(c, r) == ep[c][r].open
Reaches(c, r) == Open(c, r) /\ Open(c, Peer(r))
Sent(c, r, recs) ==
  [wire EXCEPT ![c][Peer(r)] = IF Reaches(c, r) THEN @ \o recs ELSE @]
SetEp(c, r, e) == ep' = [ep EXCEPT ![c][r] = e]

(* The endpoint after writeRecord has encrypted the record, and flipped    *)
(* the output cipher if it is a ChangeCipherSpec.                          *)
Encrypted(e, typ) ==
  IF typ = "ccs" THEN [e EXCEPT !.out = ChangeCipherSpec(IncSeq(@))]
  ELSE [e EXCEPT !.out = IncSeq(@), !.overflow = @ \/ SeqWraps(e.out)]

(* Encryption fails when the sequence number wraps.                        *)
WriteOK(c, r, typ) ==
  /\ typ = "ccs" => CanChangeCipherSpec(ep[c][r].out)
  /\ ~SeqWraps(ep[c][r].out)
Buffered(e, rec) == [e EXCEPT !.sendBuf = Append(@, rec)]

-----------------------------------------------------------------------------
(* Session caches.                                                         *)

ZeroSecrets(h, objs) ==
  [c \in Conns |-> [r \in Roles |->
     IF <<c, r>> \in objs THEN [h[c][r] EXCEPT !.ms = NoSecret, !.zeroed = TRUE] ELSE h[c][r]]]

(* createNewClientSession stores one SessionState under two keys, the      *)
(* server's under the session id only.                                     *)
SessionKeys(c, r) ==
  IF r = "client" THEN <<IDKey(ep[c][r].sid), IdentityKey(c)>> ELSE <<IDKey(ep[c][r].sid)>>
PutFirst(c, r) == Put(cache[CacheOf(c, r)], CapOf(r), SessionKeys(c, r)[1], <<c, r>>)
Zeroed1(c, r) == ZeroedByPut(cache[CacheOf(c, r)], CapOf(r), SessionKeys(c, r)[1], <<c, r>>)
PutAll(c, r) ==
  IF r = "client" THEN Put(PutFirst(c, r), CapOf(r), IdentityKey(c), <<c, r>>) ELSE PutFirst(c, r)
ZeroedAll(c, r) ==
  Zeroed1(c, r) \cup
  (IF r = "client" THEN ZeroedByPut(PutFirst(c, r), CapOf(r), IdentityKey(c), <<c, r>>) ELSE {})

NewSession(e) ==
  [sid |-> e.sid, ms |-> e.ms, suite |-> e.suite, zeroed |-> FALSE, old |-> FALSE]

(* discardSession: Put(nil) under both keys.                               *)
DiscardSession(c, sid) ==
  LET mine == cache["client"]
      both == {IDKey(sid), IdentityKey(c)}
  IN /\ cache' = [cache EXCEPT !["client"] = SelectSeq(mine, LAMBDA x : x.key \notin both)]
     /\ heap' = ZeroSecrets(heap, UNION {ZeroedByPutNil(mine, k) : k \in both})

(* A session outlives sessionLifetime: the two ends started its clock at   *)
(* different times, so one may find it stale before the other.             *)
Age(c, r) ==
  /\ cfg.aging /\ heap[c][r].sid # 0 /\ ~heap[c][r].old
  /\ heap' = [heap EXCEPT ![c][r].old = TRUE]
  /\ UNCHANGED <<cfg, ep, wire, cache, wrote, got>>

(* The state Get returns a clone of, if the entry exists and is fresh.     *)
Fresh(x, k) == {heap[o[1]][o[2]] : o \in {y \in Lookup(cache[x], k) : ~heap[y[1]][y[2]].old}}

-----------------------------------------------------------------------------
(* The calls of the handshake driver.                                      *)

Rest(e) == [e EXCEPT !.todo = Tail(@)]
NextIs(c, r, ops) == ep[c][r].todo # <<>> /\ Head(ep[c][r].todo).op \in ops

(* The driver returns an error: Handshake sends the alert, and a client    *)
(* that was resuming has discarded the session.  The errors of the alert   *)
(* itself are ignored.                                                     *)
Errored(c, r, e) ==
  /\ SetEp(c, r, IF e.pc = "failed" THEN Rest(e) ELSE Failed(e))
  /\ IF r = "client" /\ e.resumed /\ e.pc # "failed" THEN DiscardSession(c, e.sid)
     ELSE UNCHANGED <<cache, heap>>

DriverWrites(c, r) ==
  LET e == ep[c][r]
      call == Head(e.todo)
      rec == Encrypt(e.out, call.typ, call.msg)
      written == Rest(Encrypted(e, call.typ))
  IN /\ NextIs(c, r, {"write"}) /\ WriteOK(c, r, call.typ)
     /\ \/ e.buffering /\ SetEp(c, r, Buffered(written, rec)) /\ UNCHANGED wire
        \/ ~e.buffering /\ e.open /\ SetEp(c, r, written) /\ wire' = Sent(c, r, <<rec>>)
     /\ UNCHANGED <<cfg, cache, heap, wrote, got>>
DriverWriteFails(c, r) ==
  LET e == ep[c][r]
      call == Head(e.todo)
  IN /\ NextIs(c, r, {"write"})
     /\ \/ ~WriteOK(c, r, call.typ) /\ Errored(c, r, [e EXCEPT !.out = IncSeq(@)])
        \/ WriteOK(c, r, call.typ) /\ ~e.buffering /\ ~Reaches(c, r)
           /\ Errored(c, r, Encrypted(e, call.typ))
     /\ UNCHANGED <<cfg, wire, wrote, got>>

(* flush: the send buffer is reset whether or not the write succeeds.  The *)
(* last flush of Handshake ("settle") ignores the error.                   *)
Emptied(e) == [e EXCEPT !.sendBuf = <<>>]
DriverFlushes(c, r) ==
  LET e == ep[c][r] IN
  /\ NextIs(c, r, {"flush", "settle"})
  /\ e.sendBuf = <<>> \/ e.open \/ Head(e.todo).op = "settle"
  /\ SetEp(c, r, Rest(Emptied(e))) /\ wire' = Sent(c, r, e.sendBuf)
  /\ UNCHANGED <<cfg, cache, heap, wrote, got>>
DriverFlushFails(c, r) ==
  LET e == ep[c][r] IN
  /\ NextIs(c, r, {"flush"}) /\ e.sendBuf # <<>> /\ ~Reaches(c, r)
  /\ Errored(c, r, Emptied(e))
  /\ UNCHANGED <<cfg, wire, wrote, got>>

(* buffering.Store; the last one precedes handshakeStatus = 1.             *)
DriverBuffers(c, r) ==
  LET e == ep[c][r]
      on == Head(e.todo).op = "buffer"
  IN /\ NextIs(c, r, {"buffer", "unbuffer"})
     /\ SetEp(c, r, [Rest(e) EXCEPT !.buffering = on, !.pc = IF on THEN @ ELSE "done"])
     /\ UNCHANGED <<cfg, wire, cache, heap, wrote, got>>

DriverStores(c, r) ==
  LET e == ep[c][r] IN
  /\ NextIs(c, r, {"store"})
  /\ SetEp(c, r, Rest(e))
  /\ IF CapOf(r) = 0 THEN UNCHANGED <<cache, heap>>
     ELSE /\ cache' = [cache EXCEPT ![CacheOf(c, r)] = PutAll(c, r)]
          /\ heap' = ZeroSecrets([heap EXCEPT ![c][r] = NewSession(e)], ZeroedAll(c, r))
  /\ UNCHANGED <<cfg, wire, wrote, got>>

-----------------------------------------------------------------------------
(* Reading records (readRecord, readHandshake).                            *)

Reading(c, r) ==
  /\ ep[c][r].todo = <<>> /\ ep[c][r].pc \notin {"idle", "failed", "finishing", "done"}
InHandshake(c, r) == Reading(c, r) /\ ep[c][r].open /\ wire[c][r] # <<>>
Incoming(c, r) == Head(wire[c][r])
Pop(c, r) == wire' = [wire EXCEPT ![c][r] = Tail(@)]

(* A ChangeCipherSpec record switches the input cipher, in the handshake   *)
(* and after it; it fails when no cipher is staged.                        *)
Switched(e) == [e EXCEPT !.in = ChangeCipherSpec(@)]
ReadCCS(c, r) ==
  /\ InHandshake(c, r) /\ Incoming(c, r).typ = "ccs"
  /\ Pop(c, r)
  /\ SetEp(c, r, IF CanChangeCipherSpec(ep[c][r].in) THEN Switched(ep[c][r]) ELSE Failed(ep[c][r]))
  /\ UNCHANGED <<cfg, cache, heap, wrote, got>>

(* The handshake message at the head of the wire, once decrypted.          *)
Handshake(c, r, pc, t) ==
  /\ InHandshake(c, r) /\ ep[c][r].pc = pc
  /\ Decrypts(ep[c][r].in, Incoming(c, r)) /\ ~SeqWraps(ep[c][r].in)
  /\ Incoming(c, r).typ = "handshake" /\ Incoming(c, r).msg.t = t
Advance(e) == [e EXCEPT !.in = IncSeq(@)]
Fed(e, t) == [Advance(e) EXCEPT !.transcript = Append(@, t)]

(* The message a driver waits for at pc; it may also be refused later.     *)
Awaited(pc) == IF pc = "ServerHelloDone" THEN {"CertificateRequest", "ServerHelloDone"} ELSE {pc}

Unreadable(c, r) ==
  LET rec == Incoming(c, r) IN
  \/ ~ep[c][r].open
  \/ wire[c][r] = <<>> /\ ~Open(c, Peer(r))
  \/ /\ wire[c][r] # <<>> /\ rec.typ # "ccs"
     /\ \/ ~Decrypts(ep[c][r].in, rec) \/ SeqWraps(ep[c][r].in)
        \/ rec.typ # "handshake" \/ rec.msg.t \notin Awaited(ep[c][r].pc)
ReadFails(c, r) ==
  /\ Reading(c, r) /\ Unreadable(c, r)
  /\ IF ep[c][r].open /\ wire[c][r] # <<>> THEN Pop(c, r) ELSE UNCHANGED wire
  /\ Errored(c, r, ep[c][r])
  /\ UNCHANGED <<cfg, wrote, got>>

(* One message consumed, the endpoint becomes e.                           *)
Consume(c, r, e) ==
  Pop(c, r) /\ SetEp(c, r, e) /\ UNCHANGED <<cfg, cache, heap, wrote, got>>

-----------------------------------------------------------------------------
(* clientHandshakeReal.                                                    *)

MakeClientHello(session) == ClientHelloMsg(session.sid, Range(cfg.clientSuites))
Ended == {"done", "failed"}
Started == Ended \cup {"ServerHello", "Certificate", "ServerKeyExchange", "ServerHelloDone", "Finished", "finishing"}
Offer(c) == Fresh("client", IdentityKey(c))

StartClient(c) ==
  /\ ep[c]["client"].pc = "idle"
  /\ \A d \in Active : d < c => ep[d]["client"].pc \in (IF cfg.parallel THEN Started ELSE Ended)
  /\ \E s \in IF Offer(c) = {} THEN {NoSession} ELSE Offer(c) :
       SetEp(c, "client", [ep[c]["client"] EXCEPT
         !.session = s, !.pc = "ServerHello", !.todo = <<WriteHandshake(MakeClientHello(s))>>])
  /\ cache' = [cache EXCEPT !["client"] = Get(@, IdentityKey(c))]
  /\ UNCHANGED <<cfg, wire, heap, wrote, got>>

Resumes(e, sh) == e.session.sid # 0 /\ sh.sid = e.session.sid /\ sh.val = {e.session.suite}
SuiteOf(sh) == CHOOSE s \in Suites : sh.val = {s}
Hellos == <<"ClientHello", "ServerHello">>
Greeted(e, sh) == [Advance(e) EXCEPT !.transcript = Hellos, !.suite = SuiteOf(sh), !.sid = sh.sid]

ReadServerHello(c) ==
  LET e == ep[c]["client"]
      sh == Incoming(c, "client").msg
      hello == Greeted(e, sh)
  IN /\ Handshake(c, "client", "ServerHello", "ServerHello")
     /\ Consume(c, "client",
          IF SuiteOf(sh) \notin Range(cfg.clientSuites) THEN Failed(hello)
          ELSE IF Resumes(e, sh)
          THEN [EstablishKeys(hello, c, "client", e.session.ms) EXCEPT !.pc = "Finished", !.resumed = TRUE]
          ELSE [hello EXCEPT !.pc = "Certificate", !.session = NoSession])

ReadServerCertificate(c) ==
  /\ Handshake(c, "client", "Certificate", "Certificate")
  /\ Consume(c, "client",
       [Fed(ep[c]["client"], "Certificate") EXCEPT !.pc = "ServerKeyExchange", !.peerCert = TRUE])

(* The signature first; then both chains are verified, and the pairing of  *)
(* the two certificates, unless insecureSkipVerify is set.                 *)
SignatureOK(c, suite, ske) ==
  IF suite = "ECDHE" THEN ECDHEClientProcessSKE(c, Server(c), ske)
  ELSE ECCProcessServerKeyExchange(c, Server(c), ske)
ReadServerKeyExchange(c) ==
  LET e == Fed(ep[c]["client"], "ServerKeyExchange") IN
  /\ Handshake(c, "client", "ServerKeyExchange", "ServerKeyExchange")
  /\ Consume(c, "client",
       IF SignatureOK(c, e.suite, Incoming(c, "client").msg) /\ (cfg.serverTrusted \/ cfg.insecure) THEN [e EXCEPT !.pc = "ServerHelloDone"] ELSE Failed(e))

ReadCertificateRequest(c) ==
  /\ Handshake(c, "client", "ServerHelloDone", "CertificateRequest")
  /\ ~ep[c]["client"].certRequested
  /\ Consume(c, "client", [Fed(ep[c]["client"], "CertificateRequest") EXCEPT !.certRequested = TRUE])

(* The client's second flight: a Certificate if one was requested, empty   *)
(* without clientCerts; ClientKeyExchange; CertificateVerify when it has   *)
(* certificates.  ECDHE needs the client's own encryption certificate.     *)
GivesCert(e) == e.certRequested /\ cfg.clientCert
ClientCertificate(e) ==
  IF ~e.certRequested THEN <<>>
  ELSE <<CertificateMsg(IF cfg.clientCert THEN {"client"} ELSE {})>>
KeyExchange(c, e) ==
  IF e.suite = "ECDHE" THEN ECDHEClientGenerateCKE(c) ELSE ECCGenerateClientKeyExchange(c, Server(c))
CertificateVerify(e, transcript) ==
  IF GivesCert(e) THEN <<CertificateVerifyMsg(SignHandshake("client", transcript))>> ELSE <<>>
Types(flight) == [i \in DOMAIN flight |-> flight[i].t]
Writes(flight) == [i \in DOMAIN flight |-> WriteHandshake(flight[i])]

SecondFlight(c, e) ==
  LET start == Append(ClientCertificate(e), KeyExchange(c, e))
  IN start \o CertificateVerify(e, e.transcript \o Types(start))

ClientFlight(c, e) ==
  LET k == EstablishKeys(e, c, "client", MasterFromPreMaster(c, c))
      t == [k EXCEPT !.transcript = @ \o Types(SecondFlight(c, e))]
  IN IF e.suite = "ECDHE" /\ ~cfg.clientCert
     THEN [Failed(e) EXCEPT !.todo = Writes(ClientCertificate(e)) \o @]
     ELSE [t EXCEPT !.pc = "Finished",
                    !.todo = Writes(SecondFlight(c, e)) \o SendFinished("client", t),
                    !.transcript = Append(@, "ClientFinished")]

ReadServerHelloDone(c) ==
  /\ Handshake(c, "client", "ServerHelloDone", "ServerHelloDone")
  /\ Consume(c, "client", ClientFlight(c, Fed(ep[c]["client"], "ServerHelloDone")))

(* readServerCCSAndFinished; on resumption the client's Finished follows.  *)
ClientFinishes(e) ==
  [e EXCEPT !.pc = "finishing",
     !.todo = IF e.resumed
              THEN SendFinished("client", [e EXCEPT !.transcript = Append(@, "ServerFinished")]) \o Completion
              ELSE <<Store>> \o Completion]
ReadServerFinished(c) ==
  LET e == ep[c]["client"] IN
  /\ Handshake(c, "client", "Finished", "Finished")
  /\ IF Incoming(c, "client").msg = FinishedMsg(FinishedSum("server", e.ms, e.transcript))
     THEN Consume(c, "client", ClientFinishes(Advance(e)))
     ELSE Pop(c, "client") /\ Errored(c, "client", e) /\ UNCHANGED <<cfg, wrote, got>>

-----------------------------------------------------------------------------
(* serverHandshakeReal.                                                    *)

StartServer(c) ==
  /\ ep[c]["server"].pc = "idle"
  /\ SetEp(c, "server", [ep[c]["server"] EXCEPT !.pc = "ClientHello"])
  /\ UNCHANGED <<cfg, wire, cache, heap, wrote, got>>

(* tlcpMutualCipherSuite: the first of the server's preference.            *)
MutualSuites(ch) == SelectSeq(cfg.serverSuites, LAMBDA s : s \in OfferedSuites(ch))

(* lookupResumedSession.                                                   *)
ResumedSession(c, ch, suite) ==
  IF OfferedID(ch) = 0 \/ cfg.serverCap = 0 THEN {}
  ELSE {s \in Fresh(Server(c), IDKey(OfferedID(ch))) : s.suite = suite}

WantsClientCert(e) == cfg.auth # "NoClientCert" \/ e.suite = "ECDHE"
FirstFlight(c, e) ==
  <<ServerHelloMsg(c, e.suite), CertificateMsg({Server(c)}),
    IF e.suite = "ECDHE" THEN ECDHEServerGenerateSKE(c, Server(c)) ELSE ECCGenerateServerKeyExchange(c, Server(c))>>
  \o (IF WantsClientCert(e) THEN <<CertificateRequestMsg>> ELSE <<>>)
  \o <<ServerHelloDoneMsg>>

FullHandshake(c, e) ==
  [e EXCEPT !.sid = c, !.transcript = <<"ClientHello">> \o Types(FirstFlight(c, e)),
     !.pc = IF WantsClientCert(e) THEN "Certificate" ELSE "ClientKeyExchange",
     !.todo = <<Buffer>> \o Writes(FirstFlight(c, e)) \o <<Flush>>]

(* serverResumeHandshake: the server's Finished comes first.               *)
ResumeHandshake(c, e, s) ==
  LET k == [EstablishKeys(e, c, "server", s.ms) EXCEPT
              !.sid = s.sid, !.resumed = TRUE, !.pc = "Finished",
              !.transcript = <<"ClientHello", "ServerHello">>]
  IN [k EXCEPT !.todo = <<Buffer, WriteHandshake(ServerHelloMsg(s.sid, e.suite)), Flush>>
                        \o Tail(SendFinished("server", k)),
               !.transcript = Append(@, "ServerFinished")]

ReadClientHello(c) ==
  LET e == Advance(ep[c]["server"])
      ch == Incoming(c, "server").msg
      suited == [e EXCEPT !.suite = Head(MutualSuites(ch))]
  IN /\ Handshake(c, "server", "ClientHello", "ClientHello")
     /\ Pop(c, "server")
     /\ \/ /\ MutualSuites(ch) = <<>>
           /\ SetEp(c, "server", Failed(e)) /\ UNCHANGED cache
        \/ /\ MutualSuites(ch) # <<>> /\ ResumedSession(c, ch, suited.suite) = {}
           /\ SetEp(c, "server", FullHandshake(c, suited))
           /\ cache' = [cache EXCEPT ![Server(c)] = Get(@, IDKey(ch.sid))]
        \/ /\ MutualSuites(ch) # <<>>
           /\ \E s \in ResumedSession(c, ch, suited.suite) :
                SetEp(c, "server", ResumeHandshake(c, suited, s))
           /\ cache' = [cache EXCEPT ![Server(c)] = Get(@, IDKey(ch.sid))]
     /\ UNCHANGED <<cfg, heap, wrote, got>>

(* The client's Certificate under the ClientAuth rules of the server.      *)
AcceptsClientCert(e, given) ==
  /\ e.suite = "ECDHE" => given
  /\ cfg.auth \in {"RequireAnyClientCert", "RequireAndVerifyClientCert"} => given
  /\ cfg.auth \in {"VerifyClientCertIfGiven", "RequireAndVerifyClientCert"} /\ given => cfg.clientTrusted
ReadClientCertificate(c) ==
  LET e == Fed(ep[c]["server"], "Certificate")
      given == Incoming(c, "server").msg.val # {}
  IN /\ Handshake(c, "server", "Certificate", "Certificate")
     /\ Consume(c, "server",
          IF AcceptsClientCert(e, given)
          THEN [e EXCEPT !.peerCert = given, !.pc = "ClientKeyExchange"] ELSE Failed(e))

(* The pre-master secret is derived on ClientKeyExchange, the keys once    *)
(* CertificateVerify, if any, has been verified.                           *)
ReceivedPMS(c, suite, cke) ==
  IF suite = "ECDHE" THEN ECDHEServerProcessCKE(c, "client", cke)
  ELSE ECCProcessClientKeyExchange(Server(c), cke)
ServerKeys(c, e) == [EstablishKeys(e, c, "server", MasterFromPreMaster(e.ms, c)) EXCEPT !.pc = "Finished"]
ReadClientKeyExchange(c) ==
  LET e == Fed(ep[c]["server"], "ClientKeyExchange")
      k == [e EXCEPT !.ms = ReceivedPMS(c, e.suite, Incoming(c, "server").msg)]
  IN /\ Handshake(c, "server", "ClientKeyExchange", "ClientKeyExchange")
     /\ Consume(c, "server",
          IF k.ms = NoPMS THEN Failed(e)
          ELSE IF k.peerCert THEN [k EXCEPT !.pc = "CertificateVerify"] ELSE ServerKeys(c, k))

ReadCertificateVerify(c) ==
  LET e == ep[c]["server"] IN
  /\ Handshake(c, "server", "CertificateVerify", "CertificateVerify")
  /\ Consume(c, "server",
       IF \E sig \in Incoming(c, "server").msg.val : VerifyHandshakeSignature("client", e.transcript, sig)
       THEN ServerKeys(c, Fed(e, "CertificateVerify")) ELSE Failed(Advance(e)))

(* readClientCCSAndFinished; in a full handshake the server's own Finished *)
(* follows, and only after it has been flushed is the session stored.      *)
ServerFinishes(e) ==
  LET f == [e EXCEPT !.transcript = Append(@, "ClientFinished")]
  IN [f EXCEPT !.pc = "finishing",
        !.todo = IF e.resumed THEN Completion
                 ELSE SendFinished("server", f) \o <<Store>> \o Completion]
ReadClientFinished(c) ==
  LET e == ep[c]["server"] IN
  /\ Handshake(c, "server", "Finished", "Finished")
  /\ IF Incoming(c, "server").msg = FinishedMsg(FinishedSum("client", e.ms, e.transcript))
     THEN Consume(c, "server", ServerFinishes(Advance(e)))
     ELSE Pop(c, "server") /\ Errored(c, "server", e) /\ UNCHANGED <<cfg, wrote, got>>

-----------------------------------------------------------------------------
(* The application: Write and Read after the handshake, and Close.         *)

Done(c, r) == ep[c][r].pc = "done"

(* Write sends record number n + 1 of the data; more than one record of a  *)
(* call may be on the wire before the next.                                *)
AppWrite(c, r) ==
  LET e == ep[c][r]
      n == Len(wrote[c][r]) + 1
      rec == Encrypt(e.out, "data", Msg("data", n, {}))
  IN /\ Done(c, r) /\ n <= cfg.data
     /\ \/ /\ SeqWraps(e.out) /\ SetEp(c, r, Encrypted(e, "data")) /\ UNCHANGED <<wire, wrote>>
        \/ /\ ~SeqWraps(e.out) /\ Reaches(c, r)
           /\ SetEp(c, r, Encrypted(e, "data")) /\ wire' = Sent(c, r, <<rec>>)
           /\ wrote' = [wrote EXCEPT ![c][r] = Append(@, n)]
        \/ /\ ~SeqWraps(e.out) /\ ~Reaches(c, r)
           /\ SetEp(c, r, Encrypted(e, "data")) /\ UNCHANGED <<wire, wrote>>
     /\ UNCHANGED <<cfg, cache, heap, got>>

(* Read: data; close_notify and the end of the stream are io.EOF; every    *)
(* other record or a failed decryption is an error, and the application    *)
(* reads no further.                                                       *)
ReadResult(e, rec) ==
  IF ~Decrypts(e.in, rec) \/ SeqWraps(e.in) THEN "error"
  ELSE IF rec.typ = "data" THEN "ok"
  ELSE IF rec.typ = "alert" /\ rec.msg.t = "close_notify" THEN "eof" ELSE "error"
AppReadKeeping(c, r) ==
  LET e == ep[c][r]
      rec == Incoming(c, r)
  IN /\ Done(c, r) /\ e.read = "ok" /\ e.open /\ wire[c][r] # <<>> /\ Len(got[c][r]) < 3
     /\ got' = [got EXCEPT ![c][r] =
                  IF rec.typ = "data" /\ ReadResult(e, rec) = "ok" THEN Append(@, rec.msg.sid) ELSE @]
     /\ UNCHANGED <<cfg, ep, wire, cache, heap, wrote>>
AppRead(c, r) ==
  LET e == ep[c][r]
      rec == Incoming(c, r)
  IN /\ Done(c, r) /\ e.read = "ok" /\ e.open /\ wire[c][r] # <<>>
     /\ Pop(c, r)
     /\ SetEp(c, r, [Advance(e) EXCEPT !.read = ReadResult(e, rec)])
     /\ got' = [got EXCEPT ![c][r] =
                  IF rec.typ = "data" /\ ReadResult(e, rec) = "ok" THEN Append(@, rec.msg.sid) ELSE @]
     /\ UNCHANGED <<cfg, cache, heap, wrote>>
AppReadEnds(c, r) ==
  /\ Done(c, r) /\ ep[c][r].read = "ok"
  /\ ~ep[c][r].open \/ (wire[c][r] = <<>> /\ ~Open(c, Peer(r)))
  /\ SetEp(c, r, [ep[c][r] EXCEPT !.read = IF ep[c][r].open THEN "eof" ELSE "error"])
  /\ UNCHANGED <<cfg, wire, cache, heap, wrote, got>>

(* Close: one goroutine writes close_notify and flushes it, while the      *)
(* caller closes the connection, waits for the goroutine or its timeout,   *)
(* and zeroes the keys.                                                    *)
StartClose(c, r) ==
  /\ r \in cfg.closers /\ ep[c][r].close = "none"
  /\ SetEp(c, r, [ep[c][r] EXCEPT !.close = "closing", !.alert = "write", !.told = Len(wrote[c][r])])
  /\ UNCHANGED <<cfg, wire, cache, heap, wrote, got>>
CloseNotify(c, r) ==
  LET e == ep[c][r]
      rec == Encrypt(e.out, "alert", Msg("close_notify", 0, {}))
      written == [Encrypted(e, "alert") EXCEPT !.alert = "flush"]
  IN /\ e.alert = "write"
     /\ \/ e.buffering /\ ~SeqWraps(e.out) /\ SetEp(c, r, Buffered(written, rec)) /\ UNCHANGED wire
        \/ ~e.buffering /\ ~SeqWraps(e.out) /\ SetEp(c, r, written) /\ wire' = Sent(c, r, <<rec>>)
        \/ SeqWraps(e.out) /\ SetEp(c, r, written) /\ UNCHANGED wire
     /\ UNCHANGED <<cfg, cache, heap, wrote, got>>
FlushNotify(c, r) ==
  LET e == ep[c][r] IN
  /\ e.alert = "flush"
  /\ SetEp(c, r, [Emptied(e) EXCEPT !.alert = "done"]) /\ wire' = Sent(c, r, e.sendBuf)
  /\ UNCHANGED <<cfg, cache, heap, wrote, got>>
CloseConn(c, r) ==
  /\ ep[c][r].close = "closing"
  /\ SetEp(c, r, [ep[c][r] EXCEPT !.close = "waiting", !.open = FALSE])
  /\ UNCHANGED <<cfg, wire, cache, heap, wrote, got>>
DestroyKeys(c, r) ==
  LET e == ep[c][r] IN
  /\ e.close = "waiting"
  /\ SetEp(c, r, [e EXCEPT !.close = "done", !.in = Destroy(@, cfg.aead), !.out = Destroy(@, cfg.aead)])
  /\ UNCHANGED <<cfg, wire, cache, heap, wrote, got>>

-----------------------------------------------------------------------------
Driver(c, r) ==
  \/ DriverWrites(c, r) \/ DriverWriteFails(c, r) \/ DriverFlushes(c, r) \/ DriverFlushFails(c, r)
  \/ DriverBuffers(c, r) \/ DriverStores(c, r) \/ ReadCCS(c, r) \/ ReadFails(c, r)
ClientHandshake(c) ==
  \/ StartClient(c) \/ Driver(c, "client")
  \/ ReadServerHello(c) \/ ReadServerCertificate(c) \/ ReadServerKeyExchange(c)
  \/ ReadCertificateRequest(c) \/ ReadServerHelloDone(c) \/ ReadServerFinished(c)
ServerHandshake(c) ==
  \/ StartServer(c) \/ Driver(c, "server")
  \/ ReadClientHello(c) \/ ReadClientCertificate(c) \/ ReadClientKeyExchange(c)
  \/ ReadCertificateVerify(c) \/ ReadClientFinished(c)
App(c, r) == AppWrite(c, r) \/ AppRead(c, r) \/ AppReadEnds(c, r)
Close(c, r) ==
  StartClose(c, r) \/ CloseNotify(c, r) \/ FlushNotify(c, r) \/ CloseConn(c, r) \/ DestroyKeys(c, r)

Next ==
  \E c \in Active :
    \/ ClientHandshake(c) \/ ServerHandshake(c)
    \/ \E r \in Roles : App(c, r) \/ Close(c, r) \/ Age(c, r)
Spec == Init /\ [][Next]_vars

(* Both drivers run until they block, and a connection that is dialled is  *)
(* served (Listener.Accept, then the first Read, Write or Handshake).  A   *)
(* handshake has finitely many steps, so one condition is enough for all.  *)
Handshakes == \E c \in Active : ClientHandshake(c) \/ ServerHandshake(c)
Fairness == WF_vars(Handshakes)
FairSpec == Spec /\ Fairness

-----------------------------------------------------------------------------
(* Properties.                                                             *)

Key == {NoKey, ZeroKey} \cup {KeysFromMaster(ms, c, r) : ms \in Conns \cup {NoSecret}, c \in Conns, r \in Roles}
Half == [key : Key, seq : 0 .. SeqValues - 1, next : Key]

(* Keys, sequence numbers and session states are of the shapes the code    *)
(* gives them, and no cache outgrows its capacity (NewLRUSessionCache).    *)
TypeOK ==
  /\ \A c \in Active, r \in Roles :
       /\ ep[c][r].in \in Half /\ ep[c][r].out \in Half
       /\ ep[c][r].ms \in Conns \cup {NoSecret} /\ ep[c][r].sid \in Conns \cup {0}
       /\ heap[c][r].sid \in {0, c}
       /\ Len(cache[CacheOf(c, r)]) <= CapOf(r)

(* Agreement: when both ends of a connection have finished the handshake,  *)
(* full or abbreviated, they hold the same suite, session id and master    *)
(* secret, agree on whether the session was resumed, and each reads under  *)
(* the key the other writes under (establishKeys, changeCipherSpec).       *)
SameKey(k1, k2) == k1 = k2 \/ ZeroKey \in {k1, k2}
EndsAgree ==
  \A c \in Active : Done(c, "client") /\ Done(c, "server") =>
    LET x == ep[c]["client"]
        y == ep[c]["server"]
    IN /\ <<x.suite, x.sid, x.ms, x.resumed>> = <<y.suite, y.sid, y.ms, y.resumed>>
       /\ SameKey(x.in.key, y.out.key) /\ SameKey(x.out.key, y.in.key)
       /\ NoKey \notin {x.in.key, x.out.key, y.in.key, y.out.key}

(* Resumption skips the certificates, so a client that resumed holds the   *)
(* secret of a full handshake it completed with the same server            *)
(* (sessionCacheKey), never one of another server or a zeroed one.         *)
ResumedFromSameServer ==
  \A c \in Active : Done(c, "client") /\ ep[c]["client"].resumed =>
    LET o == ep[c]["client"].sid
    IN /\ o # c /\ Server(o) = Server(c) /\ ep[c]["client"].ms = o
       /\ ep[o]["client"].pc \in {"finishing", "done"} /\ ~ep[o]["client"].resumed

(* The configurations on which a full handshake cannot complete.           *)
Common == SelectSeq(cfg.serverSuites, LAMBDA s : s \in Range(cfg.clientSuites))
Compatible ==
  /\ Common # <<>> /\ (cfg.serverTrusted \/ cfg.insecure)
  /\ Head(Common) = "ECDHE" => cfg.clientCert
  /\ (Head(Common) = "ECDHE" \/ cfg.auth # "NoClientCert") =>
       AcceptsClientCert([suite |-> Head(Common)], cfg.clientCert)

(* Between compatible ends no interleaving of the two drivers, of other    *)
(* connections on the same caches and of session expiry makes a handshake  *)
(* fail: the only causes are a Close, and a session whose secret the cache *)
(* zeroed before the client offered it.                                    *)
FailuresHaveCauses ==
  \A c \in Active, r \in Roles : ep[c][r].pc = "failed" =>
    \/ ~Compatible
    \/ \E q \in Roles : ep[c][q].close # "none"
    \/ ep[c]["client"].session.zeroed

(* A protected record is on the wire in the order of its sequence number,  *)
(* which is the order the peer decrypts in, as long as the writer is not   *)
(* closing and no sequence number has wrapped (writeRecord, flush).        *)
InOrder(recs) ==
  \A i, j \in DOMAIN recs :
    i < j /\ recs[i].key = recs[j].key /\ recs[i].key # NoKey => recs[i].seq < recs[j].seq
WireInOrder ==
  \A c \in Active, r \in Roles :
    ep[c][r].alert = "none" /\ ~ep[c][r].overflow => InOrder(wire[c][Peer(r)])

(* What Close zeroes never protects a record that leaves: the connection   *)
(* is closed first, and a buffered record meets the closed connection.     *)
NothingUnderZeroKey ==
  \A c \in Active, r \in Roles : \A i \in DOMAIN wire[c][r] : wire[c][r][i].key # ZeroKey

(* An io.EOF from Read means that all the peer wrote before it called      *)
(* Close has been read, whether the EOF came with close_notify or with the *)
(* end of the stream (ep.told is ghost: what was written at that call).    *)
EOFAfterAllData ==
  \A c \in Active, r \in Roles : ep[c][r].read = "eof" /\ ep[c][Peer(r)].pc = "done" =>
    Len(got[c][r]) >= ep[c][Peer(r)].told

(* Each direction of each connection is a reliable stream.                 *)
Stream == INSTANCE ReliableStream WITH
  Channels <- Conns \X Roles, Pieces <- 1 .. 3,
  sent <- [p \in Conns \X Roles |-> wrote[p[1]][p[2]]],
  received <- [p \in Conns \X Roles |-> got[p[1]][Peer(p[2])]]

(* Read returns what the peer wrote, in order, once, without gaps: the     *)
(* connection implements ReliableStream.                                   *)
ImplementsStream == Stream!Spec

(* A handshake that has started ends, in success or in failure: the two    *)
(* drivers never wait for each other, whatever was negotiated.             *)
HandshakesOver == \A c \in Conns, r \in Roles : ep[c][r].pc \in Ended \cup {"idle"}

(* "Get returns a clone ... so the caller cannot race with a concurrent    *)
(* Put that zeroes the cached masterSecret": a session a client finds in   *)
(* the cache carries the secret it was stored with.                        *)
OfferedSecretIntact == \A c \in Active : ~ep[c]["client"].session.zeroed

(* "The encrypt + write must be one atomic unit so concurrent Write calls  *)
(* do not interleave encrypted records on the wire": no goroutine of an    *)
(* endpoint puts a record ahead of one encrypted before it.                *)
EncryptAndWriteAtomic ==
  \A c \in Active, r \in Roles : ~ep[c][r].overflow => InOrder(wire[c][Peer(r)])

(* What the two ends of every connection may rely on, while handshakes,    *)
(* writes, reads and Close of several connections interleave over the      *)
(* session cache.                                                          *)
ConnectionsSound ==
  /\ TypeOK
  /\ EndsAgree
  /\ ResumedFromSameServer
  /\ FailuresHaveCauses
  /\ WireInOrder
  /\ NothingUnderZeroKey
  /\ EOFAfterAllData
=============================================================================
