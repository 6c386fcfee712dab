\* Two players, two rounds, queues of one, so that every send may have to wait.
SPECIFICATION FairSpec
CONSTANTS
  ayam = ayam
  kucing = kucing
  salah = salah
  NoPlayer = NoPlayer
  Player = {p1, p2}
  Text <- Texts
  Order <- TwoThenOne
  QuestionLimits <- Limits
  RoundPerGame = 2
  RoundTicks = 1
  TickAfterWrongAnswer = TRUE
  PlayedBefore <- Fresh
  QuestionFaults = TRUE
  StoreFaults = FALSE
  InCap = 1
  OutCap = 1
  MaxAnswers = 2
PROPERTIES
  StartedGameFinishes
