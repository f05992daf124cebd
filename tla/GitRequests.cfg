SPECIFICATION FairSpec
CONSTANTS
  PipeCap = 1
  Cap = 1
  ErrLimit = 1
  MaxOut = 4
  MaxErr = 3
  MinID = 1
  MaxID = 2
  MaxText = 6
  c1 = c1
  long = long
  Commits = {c1, c2}
  Abbrevs = {short, long}
  Matches <- MCMatches
  Unrelated <- MCUnrelated
  Faults = {"cancel", "exec", "git", "prune"}
\* The request ends; a stop before that violates one of the liveness properties.
CHECK_DEADLOCK FALSE
INVARIANTS TypeOK ServedIsWhole RefusalsHaveACause NothingIsLeftBehind
PROPERTIES ParseIsExact RequestsEnd
