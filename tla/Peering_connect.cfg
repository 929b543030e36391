SPECIFICATION Spec
CONSTANTS
  Nodes = {a, b}
  NoNode = NoNode
  Workers = {v, w}
  MaxCommands = 3
  MaxFaults = 1
SYMMETRY Symmetry
INVARIANTS TypeOK GrantsArePeers
PROPERTIES SuccessIsMutual FailedDialUndone
CHECK_DEADLOCK FALSE
