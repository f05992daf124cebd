SPECIFICATION Spec
CONSTANTS
  Requests = {r1, r2}
  Names = {n1}
  Branches = {main, trunk}
  RepoIDs = {i1, i2}
  GitInitBranch = main
  NoDir = NoDir
  Partial = Partial
  None = None
  Faults = {"lostAck"}
INVARIANT CreatedRepoHasStorage
