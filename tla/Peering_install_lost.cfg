SPECIFICATION Spec
CONSTANTS
  Nodes = {a, b}
  NoNode = NoNode
  Workers = {v, w}
  MaxCommands = 3
  MaxFaults = 1
SYMMETRY Symmetry
PROPERTY FailedRunRemovesAll
CHECK_DEADLOCK FALSE
