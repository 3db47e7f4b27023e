SPECIFICATION MCSpec
CONSTANTS
  Games <- MCGames
  Answers <- MCAnswers
  Values = {4, 99}
  Unknown = 99
  Recent = 0
  TimeBound = 1
  Top = 4
  Labels <- MCLabels
  LineBound = 3
  Played <- MCPlayed
  Displays <- MCDisplays
  Cells = {"c", "d"}
  CellValues = {0, 1, 2}
  Glyphs <- MCGlyphs
  Sizes = {1, 2, 9}
  Title <- MCTitle
  FrameBound = 3
  Triggers <- MCTriggers
  Unexposed = {9}
INVARIANT RedundantIsImplied
CHECK_DEADLOCK FALSE
