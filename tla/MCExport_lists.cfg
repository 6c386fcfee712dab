\* Four players, the best two, with a score or without; a point more is saved
\* while the scores are exported, any number of times, in two weeks.
SPECIFICATION ExportSpec
CONSTANTS
  N = 4
  Top = 2
  Scores <- One
  MaxSaves = 1
  StoreFaults = TRUE
  NoPlayer = 0
  Week = {w1, w2}
  NoWeek = NoWeek
INVARIANTS
  ListsTheGame
  Conserved
SYMMETRY Symmetry
