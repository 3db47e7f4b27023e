CONSTANTS
  MinimumFrames = 20
  MaxPenalty = 300
  HistoryBound = 320
SPECIFICATION FairSpec
PROPERTIES PausesAreSpaced PromiseKept PenaltyExpires
