\* A clock of 64 steps, a hub tick of 4, every kind of interval.
SPECIFICATION Spec
CONSTANTS
  Word = 64
  HubTick = 4
  Jitter = 1
  Intervals <- AllIntervals
  MaxLost = 2
  StallBound = 16
PROPERTIES
  PollsOnTime NoBacklog
