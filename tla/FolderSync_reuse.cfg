SPECIFICATION HSpec
CONSTANTS
  i = i
  r = r
  daemon = daemon
  served = served
  Peers <- MCPeers
  Initiator = i
  Responder = r
  NoPeer = NoPeer
  NumPaths = 1
  Contents = {a, b}
  NoContent = NoContent
  DeleteFloor = 10
  DeletePercent = 20
  Cycles = {daemon}
  Process <- OneProcess
  Writers <- MCPeers
  Deleters <- MCPeers
  MaxEdits = 3
  EditsPerSecond = 2
  FaultKinds = {}
  MaxFaults = 0
  MaxEvents = 3
SYMMETRY ContentSymmetry
INVARIANT EqualVersionsSameContent
