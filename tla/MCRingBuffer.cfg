\* Three values in rings of none, one and three slots.
SPECIFICATION Spec
CONSTANTS
  a = a
  b = b
  c = c
  Elements <- Items
  Capacities <- SomeCapacities
  NoItem = NoItem
  Garbage = Garbage
PROPERTY ImplementsDeque
