\* Four players of whom one is not among the best three.
SPECIFICATION Spec
CONSTANTS
  N = 4
  Top = 3
  Scores <- OneOrTwo
  MaxSaves = 0
  StoreFaults = FALSE
INVARIANTS
  OnePositionEach
