SPECIFICATION HSpec
CONSTANTS
  i = i
  r = r
  daemon = daemon
  served = served
  Peers <- MCPeers
  Initiator = i
  Responder = r
  NoPeer = NoPeer
  NumPaths = 2
  Contents = {a, b}
  NoContent = NoContent
  DeleteFloor = 0
  DeletePercent = 20
  Cycles = {daemon}
  Process <- OneProcess
  Writers <- MCPeers
  Deleters <- MCPeers
  MaxEdits = 4
  EditsPerSecond = 2
  FaultKinds = {"abort", "replyLost", "uncommitted", "torn", "ackLost"}
  MaxFaults = 2
  MaxEvents = 4
SYMMETRY ContentSymmetry
INVARIANTS TypeOK AckedEntriesAgree OneVersionOneContent DeletesLimited
PROPERTIES PruningsShared VersionsNeverRegress NothingDestroyed FreshChangesNew
