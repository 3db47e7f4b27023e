CONSTANTS
  FrameBound = 3
  CallBound = 3
  Hosts <- MCHosts
SPECIFICATION Spec
INVARIANTS EachItemOnce EventsTellStates SizeSuffices
PROPERTIES RestoresTheSnapshot
CHECK_DEADLOCK FALSE
