SPECIFICATION Spec
CONSTANTS
 Parts = {"loss", "ecn", "acks", "estimates", "packer"}
 LossConfigs <- MCLossConfigs
 InitialWindow = 4
 MaxWindow = 6
 HybridLowWindow = 3
 HybridMinSamples = 2
 MaxSkippedPackets = 4
 MaxTrackedLostPackets = 3
 RTT = 8
 PTOBase = 10
 MaxAckDelay = 2
 MaxPTODuration = 30
 PathProbeTimeout = 10
 MaxTrackedSentPackets = 6
 MaxOutstandingSentPackets = 5
 NumECNTestingPackets = 2
 MaxSent = 4
 PathKinds = {"clean", "bleaching", "mangling"}
 Probed = {"bleaching"}
 MaxNumAckRanges = 2
 MaxPN = 4
 MaxAckTime = 3
 DefaultInitialRTT = 10
 TimerGranularity = 1
 MinPacingDelay = 1
 MaxBurstSizePackets = 2
 Second = 10
 Deltas = {0, 3, 8, 20}
 Delays = {0, 2, 6}
 Rates = {3, 7, 25}
 Sizes = {3, 5}
 MaxSamples = 2
 MaxPacingTime = 4
 PackerScenarios <- MCPackerScenarios
 MaxSize = 20
 LongHeader = 3
 ShortHeader = 2
 Overhead = 2
 MinPayload = 2
 CryptoHeader = 2
 StreamHeader = 2
 AckLen = 3
 PingLen = 1
 ControlLen = 2
 CloseLen = 2
 MinCoalescedPacketSize = 10
 MinStreamFrameSize = 3
 MaxNonAckElicitingAcks = 2
CHECK_DEADLOCK FALSE
INVARIANTS   AcksExact PacketsSound
