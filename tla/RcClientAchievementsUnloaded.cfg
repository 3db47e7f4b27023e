CONSTANTS
  Count = 2
  HideDelay = 1
  Hosts <- SubmittingHosts
SPECIFICATION Spec
INVARIANTS AnswersFindGame
