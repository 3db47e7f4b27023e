CONSTANTS
  Count = 2
  FromHits = {"h"}
  Hosts <- SafeHosts
SPECIFICATION Spec
INVARIANTS ReferencesCounted TrackerShowsValue SoftcoreIdle
PROPERTIES AttemptsAnnounced RefinesOverlay
