SPECIFICATION M2FairSpec
CONSTANTS
  N = 5
  Entries = {1}
  Shapes <- CFGs
  Alloca = {"a", "b"}
  Codes <- MCCodes
PROPERTIES PassEnds
INVARIANTS FrontiersAreFrontiers PhisWhereDefinitionsMeet LoadsSeeTheirDefinition StacksFollowThePath AbortsHaveACause
CHECK_DEADLOCK FALSE
