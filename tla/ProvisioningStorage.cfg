SPECIFICATION Spec
CONSTANTS
  Requests = {r1, r2, r3}
  Names = {n1}
  Branches = {main, trunk}
  RepoIDs = {i1, i2, i3}
  GitInitBranch = main
  NoDir = NoDir
  Partial = Partial
  None = None
  Faults = {"cancel", "git", "db", "crash"}
SYMMETRY Symmetry
INVARIANTS TypeOK OneRepoPerName StorageBehindEveryRow FailedCreateLeavesNothing
PROPERTY AcknowledgedRepoIsKept
