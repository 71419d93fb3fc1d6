SPECIFICATION DTSpec
CONSTANTS
  N = 3
  Entries = {1, 2, 3}
  Shapes <- ThreeShapes
INVARIANTS ImmediateDominators
CHECK_DEADLOCK FALSE
