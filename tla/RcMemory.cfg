CONSTANTS
  FrameBound = 3
  FirstChunk = 2
  Hosts <- MCHosts
SPECIFICATION Spec
INVARIANTS OperandsFollowHistory ComparisonsAgree PoolsSuffice
