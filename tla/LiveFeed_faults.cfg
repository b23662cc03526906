SPECIFICATION FairSpec
CONSTANTS
  Products = {btc}
  Deadlines = {"none", "ahead"}
  StaleAfter = 1
  MaxBackoff = 3
  LoseSnapshots = TRUE
  HeartbeatSteps = {0, 1}
  MaxTrades = 3
  MaxSeq = 3
  MaxWire = 2
  MaxRequests = 2
  MaxFaults = 2
INVARIANTS TradesEmittedOnceInOrder ContiguousSinceBaseline BackoffSchedule
PROPERTIES CaughtUp HalfOpenDetected DeadlineEnds
CHECK_DEADLOCK FALSE
