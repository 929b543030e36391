SPECIFICATION Spec
CONSTANTS
  f = f
  g = g
  p = p
  q = q
  Folders <- MCFolders
  Peers = {p}
  PeerOf <- SamePeer
  Pending = {}
  Debounce = 1
  FullScan = 4
  WatchRetry = 4
  Poll = 2
  BackoffStart = 1
  BackoffMax = 3
  JitterRatio = 3
  MaxCycle = 1
  MaxChanges = 1
  MaxFaults = 1
INVARIANT FailedIsRetried
