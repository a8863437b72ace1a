\* The windows of gwg.h in units of 250 ms, an ENQ every 750 to 2000 ms, one lost or
\* garbled byte, stalls of loop() of up to a unit, an EEPROM read of four addresses.
SPECIFICATION Spec
CONSTANTS
  RequestTimeout = 12
  AnswerTimeout = 1
  HubWatchdog = 40
  EnqMin = 3
  EnqMax = 8
  MaxFaults = 1
  MaxStall = 1
  EnqValidity = 6
  Pairs = 4
INVARIANTS EngineFirst OwnAnswer
PROPERTIES OneCallBack UnservedTold
