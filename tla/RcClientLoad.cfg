CONSTANTS
  Loads = {l1, l2}
  NoLoad = NoLoad
  Hosts <- MCHosts
SPECIFICATION FairSpec
INVARIANTS LifetimesRespected RequestsCounted CallbackOnce UnlocksDelivered
PROPERTIES LatestWins LoadsConclude
CHECK_DEADLOCK FALSE
