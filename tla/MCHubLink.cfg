\* Three entities in three lanes, the scan console and identification, verification at
\* start-up, and requests that are answered, refused, rejected, garbled, lost or late.
SPECIFICATION LinkSpec
CONSTANTS
  EntityCount = 3
  OfflineAfter = 3
  Polled = {1, 3}
  Writable = {1, 2, 3}
  Rmw = {1,2}
  ReadBack = {2}
  Regs = {"gfa", "r1", "far"}
  Fields = {"hi", "lo"}
  Values = {0}
  Default = 0
  ReadReg <- ThreeRegs
  WriteReg <- ThreeRegs
  Field <- LinkField
  Space <- LinkSpace
  SwitchCost = {"GFA"}
  Refused <- LinkRefused
  RawOps <- ScanReads
  RawCapacity = 1
  Identify = TRUE
  HasGfa = TRUE
  IdentReg <- LinkIdent
  PanelRegs = {"r1"}
  LossyAnswers = TRUE
  WatchdogFires = TRUE
INVARIANTS
  SlotMatchesBus LaneFlags NeverRejected OfflineIsEarned OnlyUnheardFails
