----------------------------- MODULE TokenStore ------------------------------
(* The client's store of address validation tokens (quic-go/token_store.go): a
   least-recently-used cache of origins, each with a ring buffer from which the
   newest token is taken. Connections put tokens into it as NEW_TOKEN frames
   arrive, dials take them out; every call holds the store's mutex. The store
   refines a bounded stack per origin.                                       *)
EXTENDS Integers, Sequences, SequencesExt

CONSTANTS
  Origins,           \* the keys: server names or addresses
  capacity,          \* maxOrigins of NewLRUTokenStore
  singleOriginSize,  \* tokensPerOrigin
  MaxTokens          \* tokens that servers send

VARIABLES m, q, issued, last
vars == <<m, q, issued, last>>

None == 0
newSingleOriginTokenStore ==
  [tokens |-> [i \in 0..singleOriginSize - 1 |-> None], len |-> 0, p |-> 0]
index(i) == (i + singleOriginSize) % singleOriginSize

Add(s, token) ==
  [tokens |-> [s.tokens EXCEPT ![s.p] = token],
   p |-> index(s.p + 1),
   len |-> IF s.len < singleOriginSize THEN s.len + 1 ELSE singleOriginSize]

Newest(s) == s.tokens[index(s.p - 1)]

Taken(s) ==
  [tokens |-> [s.tokens EXCEPT ![index(s.p - 1)] = None],
   p |-> index(s.p - 1),
   len |-> IF s.len > 0 THEN s.len - 1 ELSE 0]

\* The list of origins, the one used last in front.
MoveToFront(key) == <<key>> \o SelectSeq(q, LAMBDA k : k # key)
Removed(key) == SelectSeq(q, LAMBDA k : k # key)
Known == {q[i] : i \in DOMAIN q}

-----------------------------------------------------------------------------
Init ==
  /\ m = [o \in Origins |-> newSingleOriginTokenStore]
  /\ q = <<>> /\ issued = 0 /\ last = None

\* A mutant: an origin that is known does not move to the front.
PutInPlace(key, token) ==
  /\ m' = IF key \in Known THEN [m EXCEPT ![key] = Add(@, token)]
          ELSE [o \in Origins |->
                  IF o = key THEN Add(newSingleOriginTokenStore, token)
                  ELSE IF Len(q) >= capacity /\ o = q[Len(q)] THEN newSingleOriginTokenStore
                  ELSE m[o]]
  /\ q' = IF key \in Known THEN q ELSE <<key>> \o SubSeq(q, 1, IF Len(q) < capacity THEN Len(q) ELSE capacity - 1)

\* A new origin takes the place of the one used longest ago.
Put(key, token) ==
  /\ m' = IF key \in Known THEN [m EXCEPT ![key] = Add(@, token)]
          ELSE [o \in Origins |->
                  IF o = key THEN Add(newSingleOriginTokenStore, token)
                  ELSE IF Len(q) >= capacity /\ o = q[Len(q)] THEN newSingleOriginTokenStore
                  ELSE m[o]]
  /\ q' = IF key \in Known THEN MoveToFront(key)
          ELSE <<key>> \o SubSeq(q, 1, IF Len(q) < capacity THEN Len(q) ELSE capacity - 1)

Pop(key) ==
  /\ key \in Known
  /\ m' = [m EXCEPT ![key] = IF Taken(@).len = 0 THEN newSingleOriginTokenStore ELSE Taken(@)]
  /\ q' = IF Taken(m[key]).len = 0 THEN Removed(key) ELSE MoveToFront(key)

\* handleNewTokenFrame of a client connection.
handleNewTokenFrame(key) ==
  /\ issued < MaxTokens
  /\ issued' = issued + 1
  /\ Put(key, issued + 1)
  /\ last' = None

\* newClientConnection asks for a token.
Dial(key) ==
  /\ Pop(key)
  /\ last' = Newest(m[key])
  /\ UNCHANGED issued

Next == \E key \in Origins : handleNewTokenFrame(key) \/ Dial(key)
Spec == Init /\ [][Next]_vars

-----------------------------------------------------------------------------
(* Properties.                                                               *)

\* The tokens of an origin, the newest first.
Stack(s) == [i \in 1..s.len |-> s.tokens[index(s.p - i)]]

\* Types and bounds; a known origin has a token.
TypeOK ==
  /\ Len(q) <= capacity /\ IsInjective(q)
  /\ \A o \in Origins : m[o].p \in 0..singleOriginSize - 1 /\ m[o].len \in 0..singleOriginSize
  /\ \A o \in Origins : o \in Known <=> m[o].len > 0

\* The abstract store: a bounded stack of tokens for each origin in use, in the
\* order of their last use.
Stacks == INSTANCE TokenStacks WITH
  stacks <- [o \in Origins |-> Stack(m[o])], recent <- q, taken <- last, count <- issued

\* The cache with its ring buffers implements the bounded stacks: a dial gets the
\* newest token of its origin that nobody took, and no token is given out twice.
ImplementsStacks == Stacks!Spec
=============================================================================
