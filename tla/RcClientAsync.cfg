SPECIFICATION Spec
CONSTANTS
  Requests = {r1, r2, r3}
  NoRequest = NoRequest
  SlotCount = 2
  Files <- MCFiles
  Loaded = "d1"
  NoHash = "NoHash"
  LoadBound = 2
  Impatient = FALSE
SYMMETRY Symmetry
INVARIANT CallbacksAccounted
INVARIANT MediaFollowsHost
CHECK_DEADLOCK FALSE
