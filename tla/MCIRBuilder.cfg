SPECIFICATION IBSpec
CONSTANTS
  Block = {b1, b2}
  Inst = {i1, i2, i3}
  Other = {c1}
  Kinds = {"br", "condbr", "retvoid"}
  MaxReserved = 0
  MaxEdits = 1
  NullUse = NullUse
  NoParent = NoParent
  End = End
SYMMETRY Symmetric
INVARIANTS PredecessorsComplete StalePredecessorsHaveACause
CHECK_DEADLOCK FALSE
