SPECIFICATION FairSpec
CONSTANTS
  i = i
  r = r
  d = d
  e = e
  Initiator = i
  Responder = r
  Dirs = {d, e}
  Above <- MCAbove
  NoDir = NoDir
  Nowhere = Nowhere
  MaxEdits = 3
  MaxTransfers = 1
  MaxFailures = 2
INVARIANT TypeOK
PROPERTIES OnlyRemovedDeleted StraysRetained Convergence
