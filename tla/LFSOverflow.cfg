SPECIFICATION MCSpec
CONSTANTS
  u1 = u1
  i1 = i1
  Uploads = {u1}
  Downloads = {}
  Batches = {}
  Repos = {i1}
  small = small
  large = large
  Bodies = {small, large}
  SizeOf <- MCSizeOf
  Invalid = Invalid
  Configured = 3
  Default = 1
  MaxInt = 3
  BatchBound = 0
  None = None
  Stuck = {}
  Faults = {}
INVARIANT GoodUploadIsNotRefused
