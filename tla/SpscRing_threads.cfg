SPECIFICATION FairSpec
CONSTANTS
  N = 2
  Items = {a, b}
  Default = a
  MaxPush = 5
INVARIANTS NoSlotRace
PROPERTIES ImplementsBoundedQueue EveryItemPopped PopTimeoutReturns
