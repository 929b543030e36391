SPECIFICATION Spec
CONSTANTS
  i = i
  r = r
  d = d
  e = e
  Initiator = i
  Responder = r
  Dirs = {d, e}
  Above <- MCAbove
  NoDir = NoDir
  Nowhere = Nowhere
  MaxEdits = 1
  MaxTransfers = 0
  MaxFailures = 1
PROPERTY CommittedIsAgreed
