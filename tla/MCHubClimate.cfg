\* A climate of two channels, and a number and the console that write the register of its
\* setpoint; the heater changes the mode.
SPECIFICATION ClimateSpec
CONSTANTS
  Setpoint = 1
  Mode = 2
  Presets <- OnePreset
  Setpoints = {0}
  Shown <- NumberSetsOne
  Blanking = {}
  Unknown = NaN
  EntityCount = 3
  Polled = {1, 2}
  Writable = {1, 2, 3}
  Rmw = {}
  ReadBack = {1, 3}
  Regs = {"r1", "state", "command", "far"}
  Fields = {"all"}
  Values = {0, 1}
  Default = 0
  ReadReg <- ReadRegs
  WriteReg <- WriteRegs
  Field <- WholeRegister
  Space <- PlainSpace
  SwitchCost = {}
  Refused <- NoReadOfFar
  RawOps <- ConsoleWrite
  RawCapacity = 1
  Identify = TRUE
  HasGfa = FALSE
  IdentReg <- IdentRegs
  PanelRegs = {"state"}
  LossyAnswers = FALSE
  WatchdogFires = FALSE
INVARIANT CardShowsTheHeater
PROPERTY PairIsConfirmed
