\* Two players, two rounds, a question with aliases and one without answers; the
\* store and the provider may fail, the channel's limit may be odd, and it may
\* have played before.
SPECIFICATION Spec
CONSTANTS
  ayam = ayam
  kucing = kucing
  salah = salah
  NoPlayer = NoPlayer
  Player = {p1, p2}
  Text <- Texts
  Order <- BlankTwoOne
  QuestionLimits <- AnyLimit
  RoundPerGame = 2
  RoundTicks = 1
  TickAfterWrongAnswer = TRUE
  PlayedBefore <- FreshOrUsed
  QuestionFaults = TRUE
  StoreFaults = TRUE
  InCap = 2
  OutCap = 2
  MaxAnswers = 4
INVARIANTS
  TypeOK
  CreditsKept
  StoreAgrees
  StoreNeverAhead
  WaitsForAnAnswer
  NewUntilShown
  ShownByTheEnd
  RankedPlayersKnown
PROPERTIES
  AnswersKeepTheirOwner
  HeardInOrder
  ImplementsContract
  LivesAsTheLobbySees
SYMMETRY Symmetry
