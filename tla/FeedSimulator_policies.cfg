SPECIFICATION SimulatorSpec
CONSTANTS
  N = 2
  Policies = {"DropNewest", "DropOldest"}
  MaxItems = 4
  Draws <- MCDraws
  Jump <- MCJump
  BasePrice <- MCBase
  Floor = 100
  BurstSize = 2
  BufferLength = 4
INVARIANTS LossesShow FreshestKept
PROPERTY ImplementsBoundedQueue
