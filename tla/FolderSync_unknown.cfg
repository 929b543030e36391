SPECIFICATION HSpec
CONSTANTS
  i = i
  r = r
  daemon = daemon
  served = served
  Peers <- MCPeers
  Initiator = i
  Responder = r
  NoPeer = NoPeer
  NumPaths = 1
  Contents = {a, b}
  NoContent = NoContent
  DeleteFloor = 10
  DeletePercent = 20
  Cycles = {daemon}
  Process <- OneProcess
  Writers = {i}
  Deleters = {i}
  MaxEdits = 2
  EditsPerSecond = 2
  FaultKinds = {}
  MaxFaults = 0
  MaxEvents = 2
SYMMETRY ContentSymmetry
INVARIANT UnknownNeverDeleted
