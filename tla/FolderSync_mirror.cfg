SPECIFICATION HFairSpec
CONSTANTS
  i = i
  r = r
  daemon = daemon
  served = served
  Peers <- MCPeers
  Initiator = i
  Responder = r
  NoPeer = NoPeer
  NumPaths = 2
  Contents = {a, b}
  NoContent = NoContent
  DeleteFloor = 10
  DeletePercent = 20
  Cycles = {daemon}
  Process <- OneProcess
  Writers = {i}
  Deleters = {r}
  MaxEdits = 4
  EditsPerSecond = 2
  FaultKinds = {"abort", "replyLost"}
  MaxFaults = 2
  MaxEvents = 5
PROPERTY Convergence
