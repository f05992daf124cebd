SPECIFICATION MCSpec
CONSTANTS
  c1 = c1
  i1 = i1
  Accesses = {c1, c2}
  AdminCalls = {a1, a2}
  Repos = {i1, i2}
  NoStorage = {i2}
  Unknown = Unknown
  Tokens = {t1}
  Forged = Forged
  TTLs = {1, 2}
  MaxTime = 2
  None = None
  Faults = {"db"}
\* A finite set of requests: the model stops when all are answered.
CHECK_DEADLOCK FALSE
SYMMETRY Symmetry
INVARIANTS TypeOK DecisionIsPermitted LastUseIsWithinLife
PROPERTY RevocationIsFinal
