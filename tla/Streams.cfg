SPECIFICATION FairSpec
CONSTANTS
 Parts = {"transfer", "framer", "sorter", "crypto", "mtu"}
 TransferConfigs <- MCTransferConfigs
 MaxWindowSize = 4
 MaxPacketBufferSize = 2
 MaxByteCount = 100
 MinStreamFrameBufferSize = 2
 MaxStreamFrameSorterGaps = 10
 FramerScenarios <- MCFramerScenarios
 Streams = {1, 2}
 Urgencies = {0, 1}
 Room = 2
 MaxData = 2
 MaxControlFrames = 1
 MaxPathResponses = 1
 StreamLen = 5
 MaxPushes = 4
 CryptoScenarios <- MCCryptoScenarios
 EchCut = 3
 FrameHeader = 3
 Start = 2
 Limit = 20
 MTUs = {2, 5, 11, 19, 20}
 MaxMTUDiff = 2
 MaxStray = 3
 MaxResets = 1
CHECK_DEADLOCK FALSE
INVARIANTS StreamExact StreamsScheduled BytesReassembled SizeSound
PROPERTIES ImplementsStream 
