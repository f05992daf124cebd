SPECIFICATION Spec
CONSTANTS
  PipeCap = 1
  Cap = 1
  ErrLimit = 1
  MaxOut = 1
  MaxErr = 1
  MinID = 1
  MaxID = 1
  MaxText = 5
  c1 = c1
  long = long
  Commits = {c1, c2}
  Abbrevs = {short, long}
  Matches <- MCMatches
  Unrelated <- MCUnrelated
  Faults = {}
CHECK_DEADLOCK FALSE
INVARIANT NoMergeBaseIsConflict
