SPECIFICATION WsSpec
CONSTANTS
  Threads = {h1, h2}
  Clients = {0, 1, 2}
  Capacity = 2
  Flags = {0, 7}
  Filters = {{}, {"trade"}}
  Serialized = TRUE
  MaxSessions = 2
  MaxFiltered = 1
  PingSizes = {125, 252, 253}
SYMMETRY ThreadSymmetry
INVARIANTS IndexExact StandingSubscribersServed AnswersMatchIndex
