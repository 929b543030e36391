SPECIFICATION FairSpec
CONSTANTS
  i = i
  r = r
  writer = writer
  deleter = deleter
  lister = lister
  acker = acker
  editor = editor
  committer = committer
  Peers <- MCPeers
  Here = r
  Away = i
  NumPaths = 2
  Contents = {a, b}
  NoContent = NoContent
  Jobs = {writer, deleter, lister, acker, editor}
  Work <- MCWork
  Unlocked = {}
  NoJob = NoJob
  NoRequest = NoRequest
  MaxEdits = 2
  MaxRequests = 2
  MaxDeaths = 1
INVARIANT TypeOK
PROPERTIES ImplementsStore LockComesFree IgnoredEntriesKept OnlyIntrudersLost
CHECK_DEADLOCK FALSE
