SPECIFICATION MCSpec
CONSTANTS
 Parts = {"crl"}
 d1=d1 d2=d2 d3=d3 i1=i1 i2=i2
 Digests <- Digest3
 Window = 2
 MaxAge = 2
 MaxEntries = 2
 Period = 2
 MaxTime = 5
 Issuers <- OneIssuer
 Requests = {r1}
 Loop = loop1
 MaxRevocations = 2
 MaxNumber = 3
 MaxCalls = 3
 MaxRestarts = 0
CHECK_DEADLOCK FALSE
INVARIANTS RevocationStaysPublished
