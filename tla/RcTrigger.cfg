CONSTANTS
  Definitions <- Triggers
  MaxTally = 2
SPECIFICATION Spec
INVARIANTS HitsWithinTarget FiredMeansMet MeasuredBacked
PROPERTIES LostHitsAnnounced PausedGroupsKeepHits RefinesLifecycle
