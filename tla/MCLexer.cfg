SPECIFICATION Spec
CONSTANT Texts <- MCTexts
INVARIANTS
  TokensAreTheText
  CommentsAreComments
  TokensAreWhole
  ThrowsAtOpenEnds
  PositionsAreTrue
PROPERTY TurnsAdvance
CHECK_DEADLOCK FALSE
