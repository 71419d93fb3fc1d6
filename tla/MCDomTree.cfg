SPECIFICATION DTFairSpec
CONSTANTS
  N = 6
  Entries = {1, 2, 3}
  Shapes <- MCShapes
INVARIANTS DominatesIsAncestry DivergesOnlyThroughTheEntry ImmediateDominatorsDownwards
PROPERTIES Terminates
CHECK_DEADLOCK FALSE
