SPECIFICATION FairSpec
CONSTANTS
  Requests = {r1, r2}
  Names = {n1, n2}
  Branches = {main, trunk}
  RepoIDs = {i1, i2}
  GitInitBranch = main
  NoDir = NoDir
  Partial = Partial
  None = None
  Faults = {"cancel", "git", "rm", "db", "lostAck", "crash"}
INVARIANTS AcknowledgedReposAgree CreatorAnswerIsBacked
PROPERTY EveryCreateEnds
