\* Two bit fields of one register: a select that reads back, and a number that
\* publishes on the acknowledgement.
SPECIFICATION EntitySpec
CONSTANTS
  Shown <- ShowsAll
  Blanking = {2}
  Unknown = NaN
  EntityCount = 2
  Polled = {1, 2}
  Writable = {1, 2}
  Rmw = {1, 2}
  ReadBack = {1}
  Regs = {"r1"}
  Fields = {"hi", "lo"}
  Values = {0, 1}
  Default = 0
  ReadReg <- OneReg
  WriteReg <- OneReg
  Field <- TwoFields
  Space <- PlainSpace
  SwitchCost = {}
  Refused = {}
  RawOps = {}
  RawCapacity = 0
  Identify = FALSE
  HasGfa = FALSE
  IdentReg <- IdentRegs
  PanelRegs = {}
  LossyAnswers = TRUE
  WatchdogFires = TRUE
INVARIANTS ShowsTheHeater MergeIsCurrent TransmitsNewest ReadBackSound
PROPERTIES OnlyAccepted SiblingFieldsKept
