SPECIFICATION FairSpec
CONSTANTS
  Products = {btc}
  Deadlines = {"none"}
  StaleAfter = 1
  MaxBackoff = 2
  LoseSnapshots = TRUE
  HeartbeatSteps = {0, 1}
  MaxTrades = 3
  MaxSeq = 4
  MaxWire = 2
  MaxRequests = 2
  MaxFaults = 2
INVARIANT SnapshotBecomesBaseline
PROPERTY CaughtUpAnyway
CHECK_DEADLOCK FALSE
