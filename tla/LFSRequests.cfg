SPECIFICATION MCSpec
CONSTANTS
  u1 = u1
  i1 = i1
  Uploads = {u1, u2}
  Downloads = {d1}
  Batches = {b1}
  Repos = {i1, i2}
  small = small
  large = large
  Bodies = {small, large}
  SizeOf <- MCSizeOf
  Invalid = Invalid
  Configured = 1
  Default = 2
  MaxInt = 2
  BatchBound = 2
  None = None
  Stuck = {u2}
  Faults = {"cancel", "disk", "crash"}
INVARIANTS TypeOK StoredObjectIsWhole DownloadIsExact GoodUploadIsNotRefused PresentIsStored AnsweredUploadIsSettled
PROPERTY ObjectsAreKept
