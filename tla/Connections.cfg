SPECIFICATION Spec
CONSTANTS
 Parts = {"ids", "paths", "streams", "params", "tokens", "timers", "https"}
 ProbePaths = {1, 2}
 Transports = {"t1", "t2"}
 Home = "t1"
 MaxActiveConnectionIDs = 3
 MaxIssuedConnectionIDs = 6
 IDScenarios <- MCIDScenarios
 NewPaths = {1, 2}
 IDs = 2
 PathScenarios <- MCPathScenarios
 Openers = {"o1", "o2"}
 Acceptors = {"a1", "a2"}
 StreamScenarios <- MCStreamScenarios
 MaxVarint = 10
 MaxStreamCount = 6
 DefaultWindow = 4
 DefaultStreams = 3
 MinRemoteIdleTimeout = 5
 ParamActiveConnectionIDs = 4
 MaxDatagramSize = 8
 Configs <- MCConfigs
 MaxReconfigurations = 2
 Origins = {"o1", "o2", "o3"}
 capacity = 2
 singleOriginSize = 2
 MaxTokens = 5
 MaxIdleTimeout = 8
 HandshakeIdleTimeout = 4
 PTO = 2
 MaxDelay = 1
 MaxInFlight = 2
 TimerScenarios <- MCTimerScenarios
 Pairs <- WholePairs
 ServerChoices <- MCServerChoices
 ClientChoices <- MCClientChoices
 MaxLoads = 2
 MaxDials = 2
CHECK_DEADLOCK FALSE
     
PROPERTIES ImplementsStacks 
