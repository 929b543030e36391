SPECIFICATION Spec
CONSTANTS
  i = i
  r = r
  writer = writer
  deleter = deleter
  lister = lister
  acker = acker
  editor = editor
  committer = committer
  Peers <- MCPeers
  Here = r
  Away = i
  NumPaths = 1
  Contents = {a, b}
  NoContent = NoContent
  Jobs = {editor, committer}
  Work <- WorkBesideEdit
  Unlocked = {committer}
  NoJob = NoJob
  NoRequest = NoRequest
  MaxEdits = 2
  MaxRequests = 2
  MaxDeaths = 1
PROPERTY EveryScanFollowsRules
CHECK_DEADLOCK FALSE
