SPECIFICATION TransportFairSpec
CONSTANTS
  N = 4
  MaxPackets = 5
  Entries = 2
  MaxKernel = 2
  MaxErrors = 1
INVARIANTS BuffersAccounted EachSourceInOrder
PROPERTIES EveryPacketDelivered
CHECK_DEADLOCK FALSE
