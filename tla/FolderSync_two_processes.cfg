SPECIFICATION HSpec
CONSTANTS
  i = i
  r = r
  daemon = daemon
  served = served
  Peers <- MCPeers
  Initiator = i
  Responder = r
  NoPeer = NoPeer
  NumPaths = 1
  Contents = {a, b}
  NoContent = NoContent
  DeleteFloor = 10
  DeletePercent = 20
  Cycles = {daemon, served}
  Process <- TwoProcesses
  Writers <- MCPeers
  Deleters <- MCPeers
  MaxEdits = 2
  EditsPerSecond = 2
  FaultKinds = {"uncommitted"}
  MaxFaults = 1
  MaxEvents = 3
SYMMETRY BothSymmetry
INVARIANT LoserPreservedFirst
PROPERTIES VersionsNeverRegress NothingDestroyed
