----------------------------- MODULE HTTPSConfig ---------------------------
(***************************************************************************)
(* What the options of the https package become: certificates loaded from  *)
(* PEM, the mode detected, the gates of the builders for TLCP, TLS and TLS *)
(* 1.3, the listener of the mode, the clients, and whether a client then   *)
(* gets a connection.  TLCP options are checked a second time per          *)
(* connection, by tlcp.configToNative, and again by the handshake.         *)
(* crypto/tls (loading a pair, building a chain) is external.  Suites are  *)
(* "ecdhe" and "ecc" (TLCP), "aead" and "cbc" (TLS).                       *)
(***************************************************************************)
EXTENDS Integers, Sequences, FiniteSets

CONSTANTS Pairs,          (* PEM inputs: [key, issuer, blocks, certOf, keyOf] *)
          ServerChoices,  (* ServerOptions without certificates *)
          ClientChoices,  (* ClientOptions *)
          MaxLoads, MaxDials

VARIABLES opts,   (* ServerOptions, see NoCert *)
          loads,  (* Load* calls made *)
          srv,    (* [state, mode, tlcp, tls]: ListenAndServe and what it built *)
          dialled (* client options -> "error" or how the connection came to be *)

vars == <<opts, loads, srv, dialled>>

NoCert == [key |-> "none", issuer |-> "none", chain |-> <<>>, of |-> "none"]
NoConfig == [ok |-> FALSE, err |-> "none", suites |-> <<>>, sign |-> NoCert, enc |-> NoCert, auth |-> "none", cas |-> FALSE, min |-> 0, max |-> 0]

Init ==
  /\ \E o \in ServerChoices : opts = [o EXCEPT !.sign = NoCert, !.enc = NoCert, !.certs = NoCert]
  /\ loads = 0
  /\ srv = [state |-> "no", mode |-> "unset", tlcp |-> NoConfig, tls |-> NoConfig]
  /\ dialled = {}

Elements(s) == {s[i] : i \in DOMAIN s}
TLCPSuites == {"ecdhe", "ecc"}
SecureTLSSuites == {"aead"}

----------------------------------------------------------------------------
(* Loading.                                                                *)

(* pem.Decode finds the blocks that are whole; the key has to be that of   *)
(* the first certificate.                                                  *)
Whole(blocks) == SelectSeq(blocks, LAMBDA b : b \in {"leaf", "inter"})
Chained(p, chain) == [key |-> p.key, issuer |-> p.issuer, chain |-> chain, of |-> p.keyOf]
Fits(p, chain) == chain # <<>> /\ Head(chain) = "leaf" /\ p.certOf = p.keyOf
loadSM2KeyPair(p) ==
  IF p.key = "sm2" /\ Fits(p, Whole(p.blocks)) THEN Chained(p, Whole(p.blocks)) ELSE NoCert
loadX509KeyPair(p) ==
  IF p.key = "p256" /\ Fits(p, Whole(p.blocks)) THEN Chained(p, Whole(p.blocks)) ELSE NoCert

Both(s, e) == IF s = NoCert \/ e = NoCert THEN opts ELSE [opts EXCEPT !.sign = s, !.enc = e]

LoadTLCPCertificates(ps, pe) ==
  /\ srv.state = "no" /\ loads < MaxLoads
  /\ opts' = Both(loadSM2KeyPair(ps), loadSM2KeyPair(pe)) /\ loads' = loads + 1
  /\ UNCHANGED <<srv, dialled>>
LoadTLSCertificate(p) ==
  /\ srv.state = "no" /\ loads < MaxLoads
  /\ opts' = IF loadX509KeyPair(p) = NoCert THEN opts ELSE [opts EXCEPT !.certs = loadX509KeyPair(p)]
  /\ loads' = loads + 1
  /\ UNCHANGED <<srv, dialled>>

----------------------------------------------------------------------------
(* The builders.                                                           *)

DetectMode(sign) == IF sign.key = "sm2" THEN "tlcp" ELSE "tls"
Mode(o) == IF o.mode # "unset" THEN o.mode ELSE DetectMode(o.sign)

Err(e) == [NoConfig EXCEPT !.err = e]
OrDefault(suites) == IF suites = <<>> THEN <<"ecdhe">> ELSE suites

buildTLCPConfig(o) ==
  IF o.sign = NoCert \/ o.enc = NoCert THEN Err("missing certificate")
  ELSE [NoConfig EXCEPT !.ok = TRUE, !.sign = o.sign, !.enc = o.enc, !.suites = OrDefault(o.suites), !.auth = o.auth]

(* GM suites are dropped, anything else that is not AEAD is refused.       *)
filterSecureTLSCipherSuites(suites) == SelectSeq(suites, LAMBDA s : s \notin TLCPSuites)
Insecure(suites) == Elements(filterSecureTLSCipherSuites(suites)) \ SecureTLSSuites # {}

Verifies(auth) == auth \in {"VerifyIfGiven", "RequireAndVerify"}
buildTLSConfig(o) ==
  IF Verifies(o.tlsAuth) /\ ~o.clientCAs THEN Err("client CAs required")
  ELSE IF Insecure(o.suites) THEN Err("insecure suite")
  ELSE IF o.shortKey THEN Err("session ticket key")
  ELSE IF o.certs = NoCert THEN Err("missing certificate")
  ELSE [NoConfig EXCEPT !.ok = TRUE, !.sign = o.certs, !.suites = filterSecureTLSCipherSuites(o.suites),
                        !.auth = o.tlsAuth, !.cas = o.clientCAs, !.min = 12, !.max = 13]
ServerConfig13(o) ==
  IF o.certs = NoCert THEN Err("missing certificate")
  ELSE IF Verifies(o.tlsAuth) /\ ~o.clientCAs THEN Err("client CAs required")
  ELSE [NoConfig EXCEPT !.ok = TRUE, !.sign = o.certs, !.auth = o.tlsAuth, !.cas = o.clientCAs, !.min = 13, !.max = 13]

(* wrapListener: a hybrid listener needs both configurations.              *)
Serving(ok, mode, tlcp, tls) ==
  [state |-> IF ok THEN "serving" ELSE "failed", mode |-> mode,
   tlcp |-> IF mode \in {"tlcp", "hybrid"} THEN tlcp ELSE NoConfig, tls |-> IF mode # "tlcp" THEN tls ELSE NoConfig]
Started(mode, tlcp, tls) ==
  Serving((mode \in {"tlcp", "hybrid"} => tlcp.ok) /\ (mode # "tlcp" => tls.ok), mode, tlcp, tls)
ListenAndServe ==
  /\ srv.state = "no" /\ loads > 0
  /\ srv' = Started(Mode(opts), buildTLCPConfig(opts), IF Mode(opts) = "tls13" THEN ServerConfig13(opts) ELSE buildTLSConfig(opts))
  /\ UNCHANGED <<opts, loads, dialled>>

----------------------------------------------------------------------------
(* Clients.                                                                *)

(* The gates: some root pool, some certificate or an explicit skip.        *)
buildTLCPClientConfig(co) ==
  IF ~(co.skip \/ co.roots \/ co.sign # NoCert \/ co.enc # NoCert) THEN Err("no trust anchor")
  ELSE [NoConfig EXCEPT !.ok = TRUE, !.suites = OrDefault(co.suites), !.sign = co.sign, !.enc = co.enc]
buildTLSClientConfig(co) ==
  IF ~(co.skip \/ co.tlsRoots \/ co.cert) THEN Err("no trust anchor")
  ELSE IF Insecure(co.suites) THEN Err("insecure suite")
  ELSE [NoConfig EXCEPT !.ok = TRUE, !.suites = filterSecureTLSCipherSuites(co.suites), !.min = 12, !.max = 13]
NewTLS13Client(co) ==
  IF ~(co.skip \/ co.tlsRoots \/ co.cert) THEN Err("no trust anchor") ELSE [NoConfig EXCEPT !.ok = TRUE, !.min = 13, !.max = 13]
NewClient(co) ==
  IF co.mode = "tlcp" THEN buildTLCPClientConfig(co)
  ELSE IF co.mode = "tls" THEN buildTLSClientConfig(co) ELSE NewTLS13Client(co)

(* NewTLCPTransport takes the name of the URL if none is configured, and   *)
(* the engine refuses to verify without one.                               *)
ServerName(co) == IF co.name = "" /\ ~co.skip THEN "host" ELSE co.name

(* configToNative: every suite a TLCP suite; no way to verify clients      *)
(* without ClientCACertificates.                                           *)
configToNative(c) == c.ok /\ Elements(c.suites) \subseteq TLCPSuites /\ (Verifies(c.auth) => c.cas)
MutualSuites(server, client) == SelectSeq(server, LAMBDA s : s \in Elements(client))

(* A chain the client can complete to its roots.                           *)
Complete(cert) == cert.issuer = "root" \/ "inter" \in Elements(cert.chain)

(* The server sends the chain of the signing certificate only, so the pair *)
(* has to have one issuer.                                                 *)
VerifyDualCerts(sign, enc) == sign.issuer = enc.issuer /\ sign.of = enc.of
TLCPServerVerified(co, sc) ==
  co.skip \/ (co.roots /\ ServerName(co) = "host" /\ Complete(sc.sign) /\ VerifyDualCerts(sc.sign, sc.enc))
(* ECDHE, and a server that requires one, need the client's certificates.  *)
TLCPClientFits(co, sc, suites) ==
  Head(suites) = "ecdhe" \/ sc.auth = "RequireAny" => co.sign # NoCert /\ co.enc # NoCert
TLCPConnects(co, cc, sc) ==
  /\ configToNative(cc) /\ configToNative(sc)
  /\ MutualSuites(sc.suites, cc.suites) # <<>>
  /\ TLCPServerVerified(co, sc) /\ TLCPClientFits(co, sc, MutualSuites(sc.suites, cc.suites))

(* With no root pool, crypto/tls takes the roots of the system.            *)
TLSTrust(co) == IF co.skip THEN "skipped" ELSE IF co.tlsRoots THEN "configured" ELSE "system"
TLSConnects(co, cc, sc) ==
  /\ cc.ok /\ sc.ok /\ cc.min <= sc.max /\ sc.min <= cc.max
  /\ co.skip \/ (Complete(sc.sign) /\ ServerName(co) = "host" /\ (co.tlsRoots \/ co.systemKnows))
  /\ sc.auth \in {"RequireAny", "RequireAndVerify"} => co.cert

Speaks(mode) == IF mode = "hybrid" THEN {"tlcp", "tls", "tls13"} ELSE IF mode = "tlcp" THEN {"tlcp"} ELSE {"tls", "tls13"}
Connects(co) ==
  /\ srv.state = "serving" /\ co.mode \in Speaks(srv.mode)
  /\ IF co.mode = "tlcp" THEN TLCPConnects(co, NewClient(co), srv.tlcp) ELSE TLSConnects(co, NewClient(co), srv.tls)

Trust(co) == IF co.mode # "tlcp" THEN TLSTrust(co) ELSE IF co.skip THEN "skipped" ELSE "configured"
Get(co) ==
  /\ srv.state = "serving" /\ ~\E d \in dialled : d.co = co
  /\ Cardinality(dialled) < MaxDials
  /\ dialled' = dialled \cup {[co |-> co, trust |-> IF Connects(co) THEN Trust(co) ELSE "error"]}
  /\ UNCHANGED <<opts, loads, srv>>

Next ==
  \/ \E ps, pe \in Pairs : LoadTLCPCertificates(ps, pe)
  \/ \E p \in Pairs : LoadTLSCertificate(p)
  \/ ListenAndServe
  \/ \E co \in ClientChoices : Get(co)

Spec == Init /\ [][Next]_vars

----------------------------------------------------------------------------
(* Properties.                                                             *)

(* What a server serves with was checked: only AEAD suites for TLS, and    *)
(* keys of the protocol's kind.                                            *)
TypeOK ==
  srv.state = "serving" =>
    /\ srv.tls.ok => Elements(srv.tls.suites) \subseteq SecureTLSSuites /\ srv.tls.sign.key = "p256"
    /\ srv.tlcp.ok => srv.tlcp.sign.key = "sm2" /\ srv.tlcp.enc.key = "sm2"

(* LoadTLCPCertificates loads a pair: whatever calls fail, the options     *)
(* never hold half a pair, and each key belongs to its certificate.        *)
PairsLoadedWhole ==
  /\ opts.sign = NoCert <=> opts.enc = NoCert
  /\ \A c \in {opts.sign, opts.enc, opts.certs} : c # NoCert => \E p \in Pairs : p.keyOf = c.of /\ p.certOf = c.of

(* "Unauthenticated by accident" is an error when the client is built: a   *)
(* client that connects without skipping verification has verified the     *)
(* server against roots it was given, never against the system's.          *)
VerifiedAsConfigured == \A d \in dialled : d.trust # "system"

(* A server that starts with two certificates that were issued together    *)
(* can be used: for each protocol its mode accepts, some client of this    *)
(* package gets a connection.                                              *)
StartedServes ==
  srv.state = "serving" /\ srv.tlcp.sign.of = srv.tlcp.enc.of =>
    \A p \in (IF srv.mode = "hybrid" THEN {"tlcp", "tls"} ELSE {srv.mode}) : \E co \in ClientChoices : co.mode = p /\ Connects(co)

=============================================================================
