SPECIFICATION WaitSpec
CONSTANTS
  UsedTiers = {1, 2, 3}
  SpinLimit = 2
  YieldLimit = 1
  MinSleep = 1
  MaxSleep = 3
  ParkTimeout = 2
  Threshold = 3
  Window = 3
  Decay = 2
  N = 2
  BurstTicks = 4
INVARIANTS WakeupBounded
PROPERTIES BurstNoticed QuietSleeps
