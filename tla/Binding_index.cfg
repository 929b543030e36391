SPECIFICATION Spec
CONSTANTS
  c1 = c1
  c2 = c2
  Provider = p
  Consumers <- TwoConsumers
  Ids = {x, y}
  NoId = NoId
  NoPeer = NoPeer
  NotShared = NotShared
  MaxCommands = 4
  MaxFaults = 1
SYMMETRY Symmetry
PROPERTY IndexedWhilePaired
CHECK_DEADLOCK FALSE
