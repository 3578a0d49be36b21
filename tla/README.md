# pollux-go in TLA+

TLA+ models of the stateful and concurrent parts of pollux-go, model-checked
with TLC on small instances, with the main safety properties of two of them
proved with TLAPS for every value of the constants. Paths are relative to the
repository root, under `src/`. PROJECT.json holds the same information in a form for tools:
which definition models which lines, the runs, the mutations each property is
known to detect, the disagreements found and the hazards.

## 1. The system

pollux-go is a toolkit for Chinese national cryptography (SM2, SM3, SM4) and
the protocols on top of it. What keeps state, in layers from the wire up:

| part | state | operations | what makes it hard |
|---|---|---|---|
| 1-RTT AEAD (`quic-go/internal/handshake/gm_updatable.go`) | key generation, phase bit, previous keys and their deadline, counters, largest acknowledged | `KeyPhase`, `Seal`, `Open`, `SetLargestAcked`, `SetHandshakeConfirmed` | two endpoints update on their own; packets are lost, repeated, reordered; only one bit tells generations apart |
| TLS 1.3 GM handshakers (`tls13gm/handshake.go`) | phase, transcript, PSK, early/handshake/application secrets | one method per message sent or received | resumption, 0-RTT and retry each change the transcript; the sides must agree on which was chosen |
| GMCryptoSetup (`quic-go/internal/handshake/gm_crypto_setup.go`) | handshaker, keys of four levels, cached 0-RTT codecs, event queue | `StartHandshake`, `HandleMessage`, key getters, `Discard…`, `SetHandshakeConfirmed` | keys must be announced, refused and dropped at the right moment while packets of every level arrive in any order |
| connection (`quic-go/connection.go` and CRYPTO streams) | streams per level, reassembly, undecryptable packets, completion and confirmation | packet and event handling, packing | the upstream code assumes the behaviour of the standard setup; the GM setup has to match it |
| 0-RTT admission (`quicgm/antireplay.go`, `quicgm/pskstore.go`) | digests seen with expiry buckets; current and previous ticket key | `Check`, `keys` | all connections of a listener share it; eviction and rotation are lazy |
| CRL (`crl/crl.go`, `crl/fanout.go`) | last number, last CRL, cache, stop channels | `GenerateWithOptions`, `Update`, `StartAutoUpdate`, `StopAutoUpdate`, `Get` | the lock is given up between fetching the list, numbering, signing and storing |
| TLCP engine (`tlcp/engine_*.go`) | half connections, handshake status, LRU session cache | `Handshake`, `Read`, `Write`, `Close`, `Get`/`Put` | handshake, reader, writer and closer are different goroutines; sessions share secrets |
| hybrid listener and client (`https/`) | negotiated connection behind a mutex | `ensure`, `Close`, deadlines, dial against cancellation | lazy negotiation races with closing |
| key container, JWT signers, certificate pools (`kmc`, `jwt`, `smx509`, `cert`) | a key or a map behind a lock | use, wipe, add | wiping against use |
| primitives and encodings (`sm2`, `sm3`, `sm4`, `sm9`, `zuc`, `aes`, `kdf`, `sshca`, `keycrypt`, `pwHash`, most of `smx509`) | none | pure functions | cryptography, not control |

They interact as follows. A GM QUIC listener (`quicgm.Listen`) owns a ticket
key rotator and an anti-replay cache and hands both to the server handshakers
of its connections. Each connection owns a GMCryptoSetup, which owns a
handshaker and, once the handshake has produced secrets, the 1-RTT AEAD. The
connection asks the setup for an opener or sealer per packet, feeds it CRYPTO
data and acts on the events it queues. CRL fanout drives one generator per
issuer. TLCP and the hybrid listener are separate stacks over TCP.

What each modelled component has to guarantee:

- **Key update**: endpoints stay close enough that each can open what the other
  sends; neither accuses a correct peer; the ACK that permits an update really
  is evidence about the peer.
- **Handshake**: both ends agree on transcript, mode and keys; application data
  is delivered only from an authenticated peer; 0-RTT data is delivered or
  reported as rejected, never both; tickets are usable; the network cannot make
  compatible ends fail; compatible ends finish.
- **0-RTT admission**: one PSK is accepted once per window, none is refused
  without a reason, bookkeeping is bounded, tickets live for a rotation period.
- **CRL**: numbers are unique and grow, a later CRL is at least as complete,
  a published revocation stays published, stopping stops.

## 2. Modules

| module | models | role |
|---|---|---|
| `GMUpdatableAEAD` | `gm_updatable.go` | operators on the AEAD's fields |
| `GMKeyUpdate` | two AEADs, packer/unpacker, ACK handling, network | specification, properties, inductive invariant |
| `GMKeyUpdateProofs` | | proofs about `GMKeyUpdate` |
| `TLS13GM` | `tls13gm/handshake.go` | operators on a handshaker |
| `GMCryptoSetup` | `gm_crypto_setup.go` | operators on a setup |
| `GMHandshake` | `connection.go`, CRYPTO streams, packer, network | specification, properties |
| `AntiReplayCache`, `TicketKeyRotator` | `antireplay.go`, `pskstore.go` | operators on a cache, a rotator |
| `ZeroRTTAdmission` | both, with tickets and a clock | specification, properties |
| `ZeroRTTProofs` | | inductive invariant and proofs |
| `CRLGenerator` | `crl.go`, `fanout.go` | specification, properties |
| `MC…` | | constants for TLC |

A Go object is a record; a method is an operator from the record to its next
value, with an `err` field (or a result) for what it returns. A specification
module holds the objects in variables and calls the operators in its actions,
so an action is a whole handler. Operators named `…Unbounded`, `…Silently`,
`…InPlace` and the like, each in front of the definition it resembles, are
deliberate mutations; no specification uses them.

### Key update

Key material is its generation number; the AEAD opens a packet exactly under the
generation it was sealed with and an intact header. `gen` is what the code
cannot see, `keyPhase` the bit it can. `Send` is `KeyPhase` then `Seal`, as in
`packetPacker.appendPacket`; `Deliver` is header unmasking, `Open` and
`handleAckFrame`, as in `packetUnpacker.unpackShortHeaderPacket` and
`Conn.handleAckFrame`. The header mask key rolls with the packet keys in the GM
code, so with `MaskedHeaders` a header of another generation may unmask to
anything (both bits, a number on either side of `firstRcvd`) or, by
coincidence, to the truth. `net` only grows and any packet of it can be
delivered at any time: loss, repetition, delay and reordering are all covered.
Counters saturate where the code no longer distinguishes them; the deadline is a
countdown.

### GM handshake

`TLS13GM` has one operator per step method. A message is `[type, body, mac]`; a
secret is the term it is derived from (PSK and transcript), so equality of keys
means equality of inputs, and a wrong binder or verify_data is an inequality of
terms. `GMCryptoSetup` adds the keys of the four levels, the cached 0-RTT codecs
and the event queue. `GMHandshake` has a connection at each end: `Receive` runs
the whole of `handleOnePacket` (opener lookup, queueing of packets that cannot
be opened yet, CRYPTO reassembly, `HandleMessage`, the event loop, completion
and confirmation); `HandleUndecryptable` is the run loop's retry of the queue;
`SendCrypto`, `SendStream` and `SendConfirmation` are the packer; `CloseOther`
is the close of another connection that was made from the same `ClientConfig`
and so shares the PSK slice. Stream offsets count half messages, which is enough
to cut a message in two.

The GM server never sends a HelloRetryRequest, but the GM client handles one;
`retry` configurations therefore have a server of another make, marked as
external in the map, which retries once and ignores 0-RTT packets.

### 0-RTT admission

The cache is the Go maps `seen` and `byExpiry`; the rotator numbers its random
keys. Each call holds the object's mutex throughout, so it is one step. `Issue`,
`Open` and `Check` may be made for any ticket at any time, by as many connections as
one likes, with the random source failing or not.

### CRL

`GenerateWithOptions` holds the generator's lock only while it reserves a number
and while it stores `lastCRL`. The model has a step for each stretch: `Fetch`,
`CallSource`, `Reserve`, `Sign`, `Publish`, and `Fail` for an error in any of
them. Goroutines are the requests and the fanout's update loop. A revoked list
only grows, so a list is its length.

## 3. What the runs check

All runs are exhaustive on their instance.

| run | instance | shows |
|---|---|---|
| `key_update` | 4 packets from the server, 2 from the client, update after every packet, masked headers | type, generations within two of each other, no false key-update error, an ACK that permits an update proves the peer has rolled |
| `key_update_masked_first` | same, integrity limit 2 | *violated*: a first update loses no authentic packet |
| `key_update_gap` | same | *violated*: never two updates ahead |
| `key_update_late` | same, headers in the clear as in the unit tests | *violated*: a late packet of the previous phase opens while its keys are kept |
| `handshake` | 32 configurations, one undecryptable packet kept | type, agreement, fate of 0-RTT data, authenticated delivery, usable ticket, compatible ends stay open |
| `handshake_liveness` | 6 compatible configurations without 0-RTT, fair run loops | the handshake is confirmed at both ends and the client gets a ticket |
| `handshake_0rtt_panic` | rejected 0-RTT offer | *violated*: the assertion against queueing after completion |
| `handshake_cut_message` | plain handshake, frames may end within a message | *violated*: the cut of messages into frames does not matter |
| `handshake_wiped_psk` | two connections from one client configuration | *violated*: the PSK survives the close of the other one |
| `zero_rtt_admission` | 3 PSKs, capacity 2, window, age limit and rotation period 2, clock to 7 | type, no replay, no refusal without reason, cache in step with its index, ticket lasts a period |
| `crl` | two issuers, one request and the loop, two calls, one restart, with and without source and explicit numbers | type, numbers unique, later calls are newer, stopping ends the loop |
| `crl_stale_publication` | one issuer, two revocations, three calls | *violated*: a published revocation stays published |

### Bounds

- *Key update.* The phase bit has period two and the ACK waiver returns at
  generation two, so four packets from one side with an interval of one reach
  the third update, and two from the other let it acknowledge, fall behind and
  catch up. Counters saturate at the intervals, the retention is one tick. The
  proofs remove these bounds.
- *Handshake.* Each message exists once and packets can be repeated at will, so
  no bound on the network is needed; `MaxOffset` is the length of the longest
  stream. A limit of one undecryptable packet makes the queue overflow in every
  run with more than one early packet. The configurations are a first
  connection and each single way in which it can differ, all combinations of
  the 0-RTT options under an accepting server, and retry with each of them.
- *Admission.* Three PSKs exceed the capacity of two, and a clock of seven
  passes three rotation periods and three windows. The proofs remove the bounds.
- *CRL.* Two overlapping calls exhibit every order of the lock sections. Three
  numbers allow one refused reservation.

Deadlock is not checked: every one of these systems may come to rest (all
packets sent and handled, a closed connection, a stopped loop, bounds reached).

### Fairness

`handshake_liveness` assumes that each run loop keeps going: if it can take a
step that changes something (handle a packet, retry its queue, send CRYPTO data
or HANDSHAKE_DONE), it eventually takes one. `Conn.run` is such a loop, woken by
arriving packets, by timers and by data to send. That a packet sent is received
by and by stands for loss recovery, which sends its content again until it is
acknowledged. Nothing is assumed of the application. The assumption is written
out (`canRun`) instead of with WF, because TLC would have to enumerate successor
states to evaluate ENABLED for these actions.

`crl` assumes weak fairness of the loop's ticker and of its own steps: calls to
the authority and the signer return, at the latest when their context expires.

## 4. What is proved

**`GMKeyUpdateProofs`** proves of `GMKeyUpdate`, for all intervals, retention
times, limits and numbers of packets, with or without header masking:
`TypeCorrect`, `GapBound`, `NoFalseError`, `AckIsProof`. From the assumptions
`AEADAssumption` and `NetAssumption` (the constants are numbers of the right
kind).

`GapAtMostTwo` is not inductive: that an endpoint may be two ahead depends on the
parity of its generation, on what it has sent since its last update and on what
the acknowledgements it holds say about the peer. `IInv` adds
- `PhaseIsParity`: the bit is the parity of the generation, on the wire too;
- `FirstSentSplits`: `firstSent` separates the packets of the current generation
  from earlier ones;
- `AcksAreHonest`: whoever acknowledges a packet had its keys, and an accepted ACK
  of a current packet means something was received under the current keys;
- `GapByParity`: on an even generation an endpoint is at most one ahead (it needed
  an ACK to get there, or followed its peer), on an odd one at most two; an
  endpoint that is behind on an odd generation has sent a packet in it, which is
  why "keys updated too quickly" is never raised.

**`ZeroRTTProofs`** proves of `ZeroRTTAdmission`, for every finite set of PSKs, every
window, age limit, capacity, rotation period and any time: `NoReplay`,
`NoFalseRefusal`, `CacheInStep`, `TicketLasts`. From `CacheAssumption`,
`RotatorAssumption` and `TimeAssumption`. The invariant adds to the type that an
entry's expiry is the acceptance time plus the window, for every digest accepted
within the window (`SeenIsAccepted`), that the index is exactly the set of live
entries (`CacheIndexed`, without which lazy eviction could miss or lose one) and
that a ticket's key is the current one, the previous one, or old (`KeysByAge`).

Each proof has a lemma per action and combines them with PTL.

Only model-checked: everything about `GMHandshake` and `CRLGenerator`, and all
liveness (TLAPS has no support for ENABLED and fairness here). The folds over
messages and frames in `GMHandshake` would need induction over sequences with an
operator parameter, which the installed provers cannot instantiate.

## 5. Disagreements between code and its comments or tests

PROJECT.json quotes both sides of each.

1. The header key is rolled with the packet keys, so the first packet of a peer's
   key update cannot be unmasked (`key_update_masked_first`).
2. The ACK condition is waived on every even generation, not only on the first
   (`key_update_gap`).
3. Late packets are not recognised on even generations (`key_update_late`).
4. A 0-RTT packet that was kept and tried again after a rejected offer fails an
   assertion of the connection (`handshake_0rtt_panic`).
5. A handshake message that spans two CRYPTO frames is an error
   (`handshake_cut_message`).
6. The PSK is wiped in the caller's configuration (`handshake_wiped_psk`).
7. A slow CRL generation replaces a newer CRL (`crl_stale_publication`).

Two more were met while modelling and have no run. After a HelloRetryRequest a
cached 0-RTT sealer is kept, although the comment on `discard0RTTCodecs` says
every site that discards early keys must call it. And the deadline of the
previous receive keys is not reset by `rollKeys`, nor started by a local update to
an even phase.

## 6. What is not modelled

Cryptography is ideal: an AEAD opens exactly what was sealed under the same key and
header, hashes and random keys do not collide, signatures verify or do not. Wire
encodings, certificate parsing, logging and qlog are left out. Of the connection,
streams, flow control, congestion control, loss recovery, connection IDs, path
migration, Retry packets and version negotiation are left out, and so are idle and handshake
timeouts: a handshake that times out closes, which no safety property here
speaks of. Client certificates are not requested. One packet carries one frame;
coalesced packets are several packets received one after the other. The rest is
listed with its reason under "components" in PROJECT.json.

## 7. Plan

In this order:

1. **TLCP engine.** `TLCPRecord` (half connections, pending and current cipher,
   sequence numbers, ChangeCipherSpec; two endpoints over a byte stream),
   `TLCPSessionCache` (LRU order, entries that share a session, wiping) and
   `TLCPConn`, which composes them with the full and the abbreviated handshake and
   with `Handshake`, `Read`, `Write` and `Close` as goroutines. Properties: records
   are delivered in order and at most once, both ends switch ciphers at the same
   record, a resumed session has the secret it was created with, `Close` ends.
   Instance: two sessions, capacity one and two, two records each way. To prove:
   the record layer's delivery invariant, and a refinement of an abstract FIFO
   channel.
2. **Packet numbers** (`quicgm/packetnumber.go`): truncation and recovery as
   functions on naturals; theorem: recovery inverts truncation whenever
   `ChoosePacketNumberLen` chose the length.
3. **Hybrid listener** (`https/listener.go`): negotiation under the mutex against
   `Close`, caller deadlines and the handshake deadline; liveness of `Close`.
4. **CRL**: proofs of `NumbersUnique` and `LaterCallsAreNewer` for any number of
   goroutines; validity periods with a clock, and expiry against the update
   interval.
5. **Abstract handshake**: a specification of what a handshake promises (both ends
   learn one session, data flows after authentication) that `GMHandshake` is shown
   to implement.
6. **Key retention** in `GMKeyUpdate`: how long previous keys are kept.
7. **kmc and quicgm.Conn**: wiping against use.
