SPECIFICATION FairSpec
CONSTANTS
  i = i
  r = r
  writer = writer
  deleter = deleter
  lister = lister
  acker = acker
  editor = editor
  committer = committer
  Peers <- MCPeers
  Here = r
  Away = i
  NumPaths = 1
  Contents = {a, b}
  NoContent = NoContent
  Jobs = {writer, committer}
  Work <- WorkBesideCommit
  Unlocked = {committer}
  NoJob = NoJob
  NoRequest = NoRequest
  MaxEdits = 2
  MaxRequests = 2
  MaxDeaths = 1
PROPERTY ImplementsStore
CHECK_DEADLOCK FALSE
