SPECIFICATION Spec
CONSTANTS
  p1 = p1
  p2 = p2
  Parts = {"inodes", "data"}
SYMMETRY ProcSymmetry
INVARIANTS
  RefsAreUses
  LinksCoverEntries
  HeldStaysAlive
  BlocksAccounted
  WritesAppend
CHECK_DEADLOCK FALSE
