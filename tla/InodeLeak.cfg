SPECIFICATION Spec
CONSTANTS
  p1 = p1
  p2 = p2
  Parts = {"inodes"}
INVARIANTS
  UnusedAreFreed
CHECK_DEADLOCK FALSE
