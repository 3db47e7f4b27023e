CONSTANTS
  Count = 2
  HideDelay = 1
  Hosts <- SafeHosts
SPECIFICATION Spec
INVARIANTS ListedAreActive HardcoreFromReset HideIsScheduled
PROPERTIES RefinesOverlay
