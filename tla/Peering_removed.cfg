SPECIFICATION Spec
CONSTANTS
  Nodes = {a, b}
  NoNode = NoNode
  Workers = {v, w}
  MaxCommands = 3
  MaxFaults = 0
SYMMETRY Symmetry
PROPERTY RemovedIsCut
CHECK_DEADLOCK FALSE
