SPECIFICATION MCSpec
CONSTANTS
  p1 = p1
  m1 = m1
  i1 = i1
  n1 = n1
  h1 = h1
  Creators = {p1, p2}
  Minters = {m1, m2}
  Names = {n1, n2}
  Branches = {main, trunk}
  RepoIDs = {i1, i2}
  Keys = {k1}
  Hashes = {h1, h2}
  Tokens = {t1, t2, t3}
  Unkeyed = {t3}
  TokenTTL = 2
  TTL = 1
  MaxTime = 2
  GitInitBranch = main
  NoDir = NoDir
  Partial = Partial
  None = None
  Faults = {"cancel", "git", "rm", "crash"}
\* Calls that the scope leaves out never end; a stop with a call of the scope
\* under way violates EveryCallEnds.
CHECK_DEADLOCK FALSE
INVARIANTS TypeOK MapsAndDiskAgree NoUseAfterRevocation
PROPERTIES ImplementsPromise EveryCallEnds
