SPECIFICATION Spec
CONSTANTS
  Threads = {h1, h2}
  Clients = {0, 1, 2}
  Capacity = 2
  Flags = {0, 7}
  Filters = {{}, {"bbo", "trade"}}
  Serialized = FALSE
  MaxSessions = 2
  MaxFiltered = 1
SYMMETRY ThreadSymmetry
INVARIANT UnregisterRemovesAll
