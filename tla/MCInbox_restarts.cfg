\* Two processes, one after the other, three updates in three half seconds, and
\* a client that asks for two updates at a time.  Time and the processes come to
\* an end, so the system may stop.
SPECIFICATION FairSpec
CONSTANTS
  a = a
  b = b
  Chat <- TwoChats
  StoreFaults = TRUE
  Second = 2
  CmdRateDelay = 1
  Batch = 2
  InboxCap = 1
  MaxUpdates = 3
  MaxTime = 2
  MaxRuns = 2
INVARIANTS
  TypeOK
  HandledInOrder
  NothingSkipped
  ScoresApart
  BroadcastOnce
PROPERTIES
  EventuallyHandled
  BroadcastsEnd
CHECK_DEADLOCK FALSE
