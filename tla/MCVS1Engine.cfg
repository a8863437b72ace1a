\* The windows of vs1.h in units of 500 ms, an ENQ every 2 s, one lost or garbled
\* byte, and stalls of loop() of up to a unit.
SPECIFICATION FairSpec
CONSTANTS
  RequestTimeout = 8
  AnswerTimeout = 2
  HubWatchdog = 20
  EnqMin = 4
  EnqMax = 4
  MaxFaults = 1
  MaxStall = 1
  EnqReset = 6
  ChainWindow = 3
INVARIANT OwnAnswer
PROPERTY LinkRecovers
