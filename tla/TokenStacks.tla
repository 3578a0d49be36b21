----------------------------- MODULE TokenStacks -----------------------------
(* What a TokenStore promises: for each of the origins used most recently a
   stack of the tokens received last; a dial takes the newest one.           *)
EXTENDS Integers, Sequences

CONSTANTS Origins, capacity, singleOriginSize, MaxTokens
VARIABLES stacks, recent, taken, count
vars == <<stacks, recent, taken, count>>

First(n, s) == SubSeq(s, 1, IF Len(s) < n THEN Len(s) ELSE n)
InFront(o) == <<o>> \o SelectSeq(recent, LAMBDA k : k # o)

Init == stacks = [o \in Origins |-> <<>>] /\ recent = <<>> /\ taken = 0 /\ count = 0

\* The token goes on top; the oldest token and the origin used longest ago give way.
Push(o) ==
  /\ count < MaxTokens
  /\ count' = count + 1
  /\ recent' = First(capacity, InFront(o))
  /\ stacks' = [k \in Origins |->
                  CASE k = o -> First(singleOriginSize, <<count + 1>> \o stacks[o])
                    [] k # o /\ (\E i \in DOMAIN recent' : recent'[i] = k) -> stacks[k]
                    [] OTHER -> <<>>]
  /\ taken' = 0

Take(o) ==
  /\ stacks[o] # <<>>
  /\ taken' = Head(stacks[o])
  /\ stacks' = [stacks EXCEPT ![o] = Tail(@)]
  /\ recent' = IF Len(stacks[o]) = 1 THEN Tail(InFront(o)) ELSE InFront(o)
  /\ UNCHANGED count

Next == \E o \in Origins : Push(o) \/ Take(o)
Spec == Init /\ [][Next]_vars
=============================================================================
