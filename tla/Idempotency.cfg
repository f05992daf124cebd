SPECIFICATION MCSpec
CONSTANTS
  r3 = r3
  k1 = k1
  h1 = h1
  Requests = {r1, r2, r3}
  Keys = {k1, k2}
  UnknownRepo = {k2}
  LockOf <- MCLockOf
  Hashes = {h1, h2}
  Tokens = {r1, r2, r3}
  TTL = 1
  MaxTime = 1
  PoolSize = 2
  None = None
  Faults = {"cancel", "db", "lostAck", "crash"}
\* A stop with a request unanswered is a violation of EveryRequestEnds.
CHECK_DEADLOCK FALSE
INVARIANTS TypeOK OneMintPerWindow MintedTokenIsReplayable AnsweredTokenIsDurable PrimaryKeyIsFree
PROPERTIES ImplementsPromise EveryRequestEnds
