SPECIFICATION FairSpec
CONSTANTS
 Parts = {"tlcp", "hybrid", "dial", "server", "start", "sending", "datagrams"}
 TLCPConfigs <- MCTLCPConfigs
 TLCPConns = {1, 2, 3}
 SeqValues = 4
 HybridScenarios <- MCHybridScenarios
 HybridConns = {"c1", "c2", "c3"}
 DialScenarios <- MCDialScenarios
 Dials = {"d1", "d2"}
 ServerScenarios <- MCServerScenarios
 DCIDs = {"d1", "d2"}
 ServerConns = {"s1", "s2"}
 ClientConns = {"k1", "k2"}
 MaxAcceptQueueSize = 1
 Max0RTTQueues = 1
 Max0RTTQueueLen = 1
 MaxServerUnprocessedPackets = 2
 MaxServerRetries = 1
 StartScenarios <- MCStartScenarios
 MaxSends = 2
 MaxRetries = 2
 SendingScenarios <- MCSendingScenarios
 sendQueueCapacity = 2
 maxPacketsToProcess = 1
 MaxConnUnprocessedPackets = 3
 DatagramScenarios <- MCDatagramScenarios
 Senders = {"s1", "s2", "s3", "s4"}
 Receivers = {"r1", "r2"}
 maxDatagramSendQueueLen = 2
 maxDatagramRcvQueueLen = 2
CHECK_DEADLOCK FALSE
INVARIANTS ConnectionsSound NegotiationSound  StartSound 
PROPERTIES ImplementsStream 
