SPECIFICATION Spec
CONSTANTS
  N = 2
  Policies = {"DropOldest"}
  MaxItems = 6
INVARIANT InOrderOnce
