SPECIFICATION Spec
CONSTANTS
  c1 = c1
  c2 = c2
  Provider = p
  Consumers <- TwoConsumers
  Ids = {x, y}
  NoId = NoId
  NoPeer = NoPeer
  NotShared = NotShared
  MaxCommands = 5
  MaxFaults = 1
SYMMETRY Symmetry
INVARIANTS TypeOK RegisteredIsBound FailedAttachUndone
PROPERTY RegisteredIndexKept
CHECK_DEADLOCK FALSE
