SPECIFICATION Spec
CONSTANTS
  Rules <- MCRules
  PastEnd = "Exp"
  Table <- importedTable
  Texts <- MCTexts
  Drafts <- MCDrafts
INVARIANTS
  OnlyWrongSymbolsAreRejected
  AnswersFollowTheRules
  ElseBelongsToTheNearestIf
  TreesHaveNoHoles
  TreesKeepEveryWord
PROPERTY TurnsUndoRules
CHECK_DEADLOCK FALSE
