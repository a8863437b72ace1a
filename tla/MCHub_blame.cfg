\* A field of r1, and the scan console writing r1.
SPECIFICATION Spec
CONSTANTS
  EntityCount = 1
  Polled = {1}
  Writable = {1}
  Rmw = {1}
  ReadBack = {1}
  Regs = {"r1"}
  Fields = {"hi", "lo"}
  Values = {0, 1}
  Default = 0
  ReadReg <- OneReg
  WriteReg <- OneReg
  Field <- FirstHi
  Space <- OwnSpace
  SwitchCost = {}
  Refused = {}
  RawOps <- ScanWrite
  RawCapacity = 1
  Identify = FALSE
  HasGfa = TRUE
  IdentReg <- IdentRegs
  PanelRegs = {}
  LossyAnswers = FALSE
  WatchdogFires = FALSE
INVARIANT ReadBackBlamesHeater
