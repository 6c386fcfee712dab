\* One chat, two games, a quorum of three; the timers may go off at any
\* time after they were started.
SPECIFICATION Spec
CONSTANTS
  group = group
  super = super
  Player = {p1, p2, p3}
  Group <- OneGroup
  Supergroup <- ToSuper
  MinQuorum = 3
  QuorumWait = 0
  Notice = 0
  InCap = 1
  GameOutCap = 1
  TimeoutCap = 1
  FinishedCap = 1
  MigratedAs = "value"
  MaxGames = 2
  MaxTexts = 1
INVARIANTS
  TypeOK
  QuorumStartsGame
  LobbyHasTimer
  OlderTimersCancelled
  NotifierAlone
  FinishedIsPending
  OnlyStartedGamesGetTexts
PROPERTIES
  GamesLive
SYMMETRY Symmetry
