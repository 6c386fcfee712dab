\* quorumWait is four times the 30 s of the last notice.
SPECIFICATION Spec
CONSTANTS
  group = group
  super = super
  Player = {p1, p2}
  Group <- OneGroup
  Supergroup <- ToSuper
  MinQuorum = 2
  QuorumWait = 4
  Notice = 1
  InCap = 1
  GameOutCap = 1
  TimeoutCap = 1
  FinishedCap = 1
  MigratedAs = "value"
  MaxGames = 1
  MaxTexts = 0
PROPERTIES
  FullQuorumWait
SYMMETRY Symmetry
