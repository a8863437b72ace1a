\* The clock, a control whose reads the engine refuses, a reading of the register of the
\* clock, the scan console and identification.
SPECIFICATION ClockFairSpec
CONSTANTS
  Clock = 1
  SyncOnBoot = FALSE
  Periodic = TRUE
  TrueTime = 1
  StaleTime = 0
  EntityCount = 3
  Polled = {2, 3}
  Writable = {1, 2}
  Rmw = {}
  ReadBack = {1}
  Regs = {"clock", "r2"}
  Fields = {"all"}
  Values = {0, 1}
  Default = 0
  ReadReg <- Registers
  WriteReg <- Registers
  Field <- WholeRegister
  Space <- PlainSpace
  SwitchCost = {}
  Refused <- NoReadOfR2
  RawOps <- ConsoleReads
  RawCapacity = 1
  Identify = TRUE
  HasGfa = TRUE
  IdentReg <- IdentRegs
  PanelRegs = {}
  LossyAnswers = TRUE
  WatchdogFires = TRUE
INVARIANTS PhaseMatchesHub NoStaleTime
PROPERTIES ChainEnds WritesDrain ReadsDrain
