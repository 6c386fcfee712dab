\* One chat, two games of two rounds, each in a cycle of four questions or of three;
\* the timers may go off at any time after they were started and the process may end
\* once.
SPECIFICATION CycleSpec
CONSTANTS
  group = group
  super = super
  Player = {p1, p2}
  Group <- OneGroup
  Supergroup <- ToSuper
  MinQuorum = 2
  QuorumWait = 0
  Notice = 0
  InCap = 1
  GameOutCap = 1
  TimeoutCap = 1
  FinishedCap = 1
  MigratedAs = "value"
  MaxGames = 2
  MaxTexts = 0
  RoundPerGame = 2
  QuestionCount = 5
  LimitFlag <- NotGiven
  ChatLimits <- OwnLimit
  StoreFaults = TRUE
  MaxCrashes = 1
INVARIANTS
  NoEarlyRepeat
CONSTRAINT StaysGroup
SYMMETRY Symmetry
