\* A unit of 500 ms: the constants of vs2.h, and an ENQ every 2.5 s.
SPECIFICATION FairSpec
CONSTANTS
  RequestTimeout = 8
  HandshakeRetry = 6
  KeepAlive = 6
  KwEnqTimeout = 6
  KwAnswerTimeout = 2
  KwLength = 2
  HubWatchdog = 20
  EnqPeriod = 5
  KwLookalikes = FALSE
  MaxFaults = 1
  MaxNoise = 1
  MaxBacklog = 3
INVARIANTS
  EngineFirst StartsClean
PROPERTIES
  KeepsPromise LinkRecovers
