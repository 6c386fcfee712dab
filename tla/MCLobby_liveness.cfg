\* One chat, two games, a quorum of two; a game's In has room for what the
\* players send.
SPECIFICATION FairSpec
CONSTANTS
  group = group
  super = super
  Player = {p1, p2}
  Group <- OneGroup
  Supergroup <- ToSuper
  MinQuorum = 2
  QuorumWait = 2
  Notice = 1
  InCap = 1
  GameOutCap = 1
  TimeoutCap = 1
  FinishedCap = 1
  MigratedAs = "value"
  MaxGames = 2
  MaxTexts = 1
PROPERTIES
  LobbyResolved
  StartedGamesFreed
