SPECIFICATION Spec
CONSTANTS
  Readers = {r1}
  Requested = {1, 2, 3}
  Modes = {FALSE, TRUE}
  MaxPublish = 6
INVARIANTS NothingLostSilently ReadInOrder
CHECK_DEADLOCK FALSE
