---------------------------- MODULE MCGMKeyUpdate ----------------------------
(* GMKeyUpdate with the packets of each endpoint bounded for TLC: four from *)
(* the server, enough for its third update, and two from the client.        *)
EXTENDS GMKeyUpdate

Budget42 == [e \in Endpoint |-> IF e = "server" THEN 4 ELSE 2]
==============================================================================
