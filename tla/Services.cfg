SPECIFICATION MCSpec
CONSTANTS
 Parts = {"admission", "crl"}
 d1=d1 d2=d2 d3=d3 i1=i1 i2=i2
 Digests <- Digest3
 Window = 2
 MaxAge = 2
 MaxEntries = 2
 Period = 2
 MaxTime = 5
 Issuers <- TwoIssuers
 Requests = {r1}
 Loop = loop1
 MaxRevocations = 1
 MaxNumber = 3
 MaxCalls = 2
 MaxRestarts = 1
CHECK_DEADLOCK FALSE
INVARIANTS NoReplayInWindow RefusedForAReason CacheIndexed TicketLastsAPeriod NumbersGrow
PROPERTIES StopEndsLoop
