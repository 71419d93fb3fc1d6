SPECIFICATION Spec
CONSTANTS
  Name <- MCName
  Objects <- MCObjects
  Programs <- MCPrograms
INVARIANTS FETypeOK VisitsAreBalanced VisitorsResolveAlike JumpsBelongToTheInnermostLoop
           ValuesHaveTheirTypes CoveredProgramsAreSaved MethodCallsPassThis
PROPERTIES ScopesAreDisciplined
CHECK_DEADLOCK FALSE
