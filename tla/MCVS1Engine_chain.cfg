\* A faultless line, a loop() that never stalls, an ENQ every 1 to 2 s.
SPECIFICATION Spec
CONSTANTS
  RequestTimeout = 8
  AnswerTimeout = 2
  HubWatchdog = 20
  EnqMin = 2
  EnqMax = 4
  MaxFaults = 0
  MaxStall = 0
  EnqReset = 6
  ChainWindow = 3
PROPERTY NeverChainsAcross
