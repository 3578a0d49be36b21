----------------------------- MODULE TLCPEngine -----------------------------
(***************************************************************************)
(* What a TLCP connection (TLCPConn) is made of: the half connections of   *)
(* the record layer, the handshake messages with what the key agreement puts *)
(* in them, and the session cache.                                         *)
(***************************************************************************)
EXTENDS Naturals, Sequences, SequencesExt

(***************************************************************************)
(* The half connections of the TLCP record layer (tlcp/engine_conn.go).    *)
(* A half connection is [key, seq, next]: the key records are protected    *)
(* under (NoKey before the first ChangeCipherSpec), the 64-bit sequence    *)
(* number, and the key staged for the next ChangeCipherSpec.  A traffic    *)
(* key is named by what it is derived from, <<masterSecret, conn, writer>>;*)
(* the zeroed key of a destroyed half connection is ZeroKey.               *)
(***************************************************************************)
CONSTANT SeqValues      \* number of sequence numbers: 2^64 in the code

NoSecret == 0           \* also the bytes a zeroed masterSecret holds
NoKey == <<NoSecret, 0, "none">>
ZeroKey == <<NoSecret, 0, "zero">>

NewHalf == [key |-> NoKey, seq |-> 0, next |-> NoKey]

Record(typ, key, seq, msg) == [typ |-> typ, key |-> key, seq |-> seq, msg |-> msg]

(* Keys are staged by establishKeys, and put to use by changeCipherSpec.   *)
PrepareCipherSpec(hc, key) == [hc EXCEPT !.next = key]
CanChangeCipherSpec(hc) == hc.next # NoKey
ChangeCipherSpec(hc) == [key |-> hc.next, seq |-> 0, next |-> NoKey]

(* incSeq fails when the number wraps, and leaves the wrapped number.      *)
SeqWraps(hc) == hc.key # NoKey /\ hc.seq + 1 = SeqValues
IncSeq(hc) == IF hc.key = NoKey THEN hc ELSE [hc EXCEPT !.seq = (@ + 1) % SeqValues]

(* Encrypt puts hc.seq in the MAC input or the additional data; decrypt    *)
(* accepts exactly the record the peer's half connection produced with the *)
(* same key and the same number.  Before a key both copy the payload.      *)
Encrypt(hc, typ, msg) == Record(typ, hc.key, hc.seq, msg)
Decrypts(hc, rec) == rec.key = hc.key /\ rec.seq = hc.seq

(* destroy zeroes the CBC key material in place; an AEAD keeps its subkeys.*)
Zeroed(key) == IF key = NoKey THEN NoKey ELSE ZeroKey
Destroy(hc, aead) == IF aead THEN hc ELSE [hc EXCEPT !.key = Zeroed(@), !.next = Zeroed(@)]

-----------------------------------------------------------------------------
(***************************************************************************)
(* The TLCP handshake messages (tlcp/engine_messages.go) and what the key  *)
(* agreement, the PRF and the signatures put in them                       *)
(* (engine_keyagreement.go, engine_prf.go, engine_auth.go), as terms.      *)
(*                                                                         *)
(* A message is [t, sid, val].  The two hello randoms of connection c are  *)
(* named by c, as are the ephemeral keys and the pre-master secret made in *)
(* it; a key pair is named by its owner.  A signature is <<signer, what it *)
(* covers>>, a ciphertext <<"enc", recipient, plaintext>>: it verifies, or *)
(* decrypts, exactly for that key.                                         *)
(***************************************************************************)
NoMsg == [t |-> "none", sid |-> 0, val |-> {}]
Msg(t, sid, val) == [t |-> t, sid |-> sid, val |-> val]

ClientHelloMsg(sid, suites) == Msg("ClientHello", sid, suites)
OfferedID(ch) == ch.sid              \* what unmarshal and unmarshalExtensions
OfferedSuites(ch) == ch.val          \* give back
ServerHelloMsg(sid, suite) == Msg("ServerHello", sid, {suite})
CertificateMsg(owners) == Msg("Certificate", 0, owners)          \* {} is the empty list
ServerKeyExchangeMsg(params) == Msg("ServerKeyExchange", 0, {params})
CertificateRequestMsg == Msg("CertificateRequest", 0, {})
ServerHelloDoneMsg == Msg("ServerHelloDone", 0, {})
ClientKeyExchangeMsg(payload) == Msg("ClientKeyExchange", 0, {payload})
CertificateVerifyMsg(sig) == Msg("CertificateVerify", 0, {sig})
FinishedMsg(verifyData) == Msg("Finished", 0, {verifyData})

-----------------------------------------------------------------------------
SignHandshake(signer, tbs) == <<signer, tbs>>
VerifyHandshakeSignature(signer, tbs, sig) == sig = <<signer, tbs>>

(* ServerKeyExchange: a signature over both randoms and, for ECC, the      *)
(* encryption certificate; for ECDHE, the server's ephemeral key.          *)
ECCSignedParams(c, encCert) == <<"ecc", c, encCert>>
ECDHESignedParams(c, eph) == <<"ecdhe", c, eph>>
Ephemeral(c, role) == <<c, role>>

ECCGenerateServerKeyExchange(c, server) ==
  ServerKeyExchangeMsg(<<"none", SignHandshake(server, ECCSignedParams(c, server))>>)
ECCProcessServerKeyExchange(c, server, ske) ==
  \E p \in ske.val : VerifyHandshakeSignature(server, ECCSignedParams(c, server), p[2])
ECDHEServerGenerateSKE(c, server) ==
  ServerKeyExchangeMsg(<<Ephemeral(c, "server"),
                         SignHandshake(server, ECDHESignedParams(c, Ephemeral(c, "server")))>>)
ECDHEClientProcessSKE(c, server, ske) ==
  \E p \in ske.val : VerifyHandshakeSignature(server, ECDHESignedParams(c, p[1]), p[2])

(* ClientKeyExchange: ECC encrypts a fresh pre-master secret to the server;*)
(* ECDHE sends the client's ephemeral key, and both sides run MQV on their *)
(* two private and the peer's two public keys.  NoPMS: not the same secret.*)
NoPMS == 0
ECCGenerateClientKeyExchange(c, server) == ClientKeyExchangeMsg(<<"enc", server, c>>)
ECCProcessClientKeyExchange(server, cke) ==
  IF \E p \in cke.val : p[1] = "enc" /\ p[2] = server
  THEN (CHOOSE p \in cke.val : p[2] = server)[3] ELSE NoPMS
ECDHEClientGenerateCKE(c) == ClientKeyExchangeMsg(<<"mqv", "client", Ephemeral(c, "client")>>)
ECDHEServerProcessCKE(c, clientEnc, cke) ==
  IF \E p \in cke.val : p = <<"mqv", clientEnc, Ephemeral(c, "client")>> THEN c ELSE NoPMS

(* The PRF: a secret is determined by its inputs.  The master secret of    *)
(* connection c from its own pre-master secret is named c.                 *)
MasterFromPreMaster(pms, c) == IF pms = c THEN c ELSE NoPMS
KeysFromMaster(ms, c, writer) == <<ms, c, writer>>
FinishedSum(writer, ms, transcript) == <<writer, ms, transcript>>

-----------------------------------------------------------------------------
(***************************************************************************)
(* The LRU session cache of a TLCP configuration (tlcp/engine_session.go). *)
(* A cache is the order list, most recently used first, of entries         *)
(* [key, cs]: cs names a SessionState, which is an object on the heap that *)
(* several entries may share.  An operation is therefore two things, the   *)
(* list it leaves and the set of states whose masterSecret it zeroes.      *)
(***************************************************************************)
Entry(k, cs) == [key |-> k, cs |-> cs]
Without(cache, k) == SelectSeq(cache, LAMBDA e : e.key # k)

(* The states an entry for key k refers to: none or one.                   *)
Lookup(cache, k) == {e.cs : e \in {x \in Range(cache) : x.key = k}}

(* Get moves the entry to the front; the caller receives a clone.          *)
Get(cache, k) == SelectSeq(cache, LAMBDA e : e.key = k) \o Without(cache, k)

(* Put of nil deletes the entry.                                           *)
ZeroedByPutNil(cache, k) == Lookup(cache, k)

(* Put replaces the entry of a known key in place of a push and an         *)
(* eviction; either way the entry is then the first of the list.           *)
Pushed(cache, k, cs) == <<Entry(k, cs)>> \o Without(cache, k)
Put(cache, cap, k, cs) ==
  LET list == Pushed(cache, k, cs) IN IF Len(list) > cap THEN Front(list) ELSE list
Evicted(cache, cap, k, cs) ==
  LET list == Pushed(cache, k, cs) IN IF Len(list) > cap THEN {Last(list).cs} ELSE {}
ZeroedByPut(cache, cap, k, cs) == Lookup(cache, k) \cup Evicted(cache, cap, k, cs)
=============================================================================
