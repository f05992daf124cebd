SPECIFICATION FairSpec
CONSTANTS
  Requests = {r1, r2}
  proxy = proxy
  other = other
  a = a
  b = b
  Addrs = {proxy, other, a, b}
  Trusted = {proxy}
  Blank = Blank
  Junk = Junk
  Heads <- MCHeads
\* The process ends; a stop before that violates ProcessEnds.
CHECK_DEADLOCK FALSE
INVARIANTS GracefulExitIsComplete LogIsTrue
PROPERTY ProcessEnds
