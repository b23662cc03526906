SPECIFICATION Spec
CONSTANTS
  N = 4
  MaxPackets = 8
INVARIANT DropsOnlyWhenSaturated
